---- MODULE Spec2Model ----
(***************************************************************************)
(* Model of the prayer platform API server (server.js): the handlers of    *)
(* POST /prayFor, /createRequestAndPrayer, /registerFCMToken,              *)
(* /getRequestFeed and /sendBroadcastEmail, the Expo push helper           *)
(* (pushNotifications.js), and the parts of the PostgreSQL schema and of   *)
(* the file system they act on.                                            *)
(*                                                                         *)
(* A handler runs on Node's single thread: the code between two awaits is  *)
(* one atomic step, so every action below spans from one await (or from    *)
(* the arrival of the call) to the next await or to the end of the         *)
(* handler.  Concurrency is the interleaving of these steps.               *)
(*                                                                         *)
(* The constraints of the tables are those of the repository's DDL (the    *)
(* CREATE TABLE script); columns that the handlers use and the DDL lacks   *)
(* (timestamp, fcm_token, the settings flags) were added by the migrations *)
(* replit.md describes and carry no constraint.                            *)
(***************************************************************************)
EXTENDS Integers, FiniteSets, Sequences, TLC

----------------------------------------------------------------------------
(* Bounds *)

\* number of /prayFor calls that may be issued in one behaviour
MaxPrayCalls == 2

\* number of /createRequestAndPrayer calls that may be issued in one behaviour
MaxCreateCalls == 2

\* hours the clock may advance
MaxClock == 2

\* number of /registerFCMToken calls that may be issued in one behaviour
MaxRegisterCalls == 1

\* number of /getRequestFeed calls that may be issued in one behaviour
MaxFeedCalls == 1

\* number of rows the recipients query of /sendBroadcastEmail may return
MaxRecipients == 3

\* number of invocations of the Expo sendPushNotification helper
MaxPushSends == 2

\* concurrent /deleteUser calls
MaxDeleteCalls == 2

\* concurrent /createUser calls
MaxCreateUserCalls == 2

\* concurrent /resetPassword calls
MaxResetCalls == 2

\* /requestPasswordReset calls
MaxResetRequests == 2

PrayCalls == 1..MaxPrayCalls
CreateCalls == 1..MaxCreateCalls
RegisterCalls == 1..MaxRegisterCalls
FeedCalls == 1..MaxFeedCalls
PushSends == 1..MaxPushSends

----------------------------------------------------------------------------
(* Values *)

NULL == "NULL"
Missing == "MISSING"          \* a request parameter that is absent (falsy)
Undefined == "UNDEFINED"      \* a property read through ?. on undefined

\* JavaScript truthiness of a column value
Truthy(v) == v \notin {NULL, Undefined, Missing, "false"}

\* rows of public.request: request "R" was created by user "A"
request == {"R"}
RequestOwner(r) == "A"

\* rows of public."user"
user == {"A", "B", "C"}

\* values a client may send as requestId / userId ("X": no such request)
RequestIdInputs == {Missing, "R", "X"}
UserIdInputs == {Missing, "B", "C"}

\* the settings row of a user that has none
NoSettings == [exists |-> FALSE, prayer_emails |-> NULL,
               push_notifications |-> NULL]

\* rows[0] of an empty result of requestOwnerQuery
NoOwnerRow == [user_id |-> Undefined, email |-> Undefined,
               fcm_token |-> Undefined, prayer_emails |-> Undefined,
               push_notifications |-> Undefined]

\* idempotency keys a client may send
Keys == {"k1", "k2"}

\* fs.existsSync finds no such file
NoFile == [by |-> 0, at |-> 0]

VARIABLES
    user_request,   \* rows of public.user_request
    user_request_seq, \* the SERIAL sequence behind user_request.id
    fcm_token,      \* "user".fcm_token of the request owner
    owner_settings, \* the settings row of the request owner, or Undefined
    owner_email,    \* "user".email of the request owner
    pf              \* per /prayFor call: the handler's locals and position

VARIABLES
    clock,          \* wall-clock time, in hours
    marker,         \* per key: the file <key>.txt (who wrote it, when) or NoFile
    unlink_pending, \* fs.unlink calls issued and not yet performed
    new_request,    \* rows inserted into public.request
    request_seq,    \* the SERIAL sequence behind request.request_id
    prayers,        \* rows inserted into public.prayers (prayer_id)
    admin_mail,     \* per call: the detached admin notification email
    cr              \* per /createRequestAndPrayer call: locals and position

VARIABLES
    rt,             \* per /registerFCMToken call: locals and position
    fd,             \* per /getRequestFeed call: locals, position and result
    bc,             \* the /sendBroadcastEmail call: locals, position and trace
    ex              \* per Expo sendPushNotification invocation: position, trace

VARIABLES
    db,             \* the account tables: "user", settings, request,
                    \* user_request and password_reset_tokens
    du,             \* per /deleteUser call: locals, position, open transaction
    cu,             \* per /createUser call: locals, position, open transaction
    rp,             \* per /resetPassword call: locals and position
    rq              \* per /requestPasswordReset call: locals and position

accountVars == <<db, du, cu, rp, rq>>

\* what the /prayFor steps leave alone, and what the
\* /createRequestAndPrayer steps leave alone
notPrayVars == <<clock, marker, unlink_pending, new_request, request_seq,
                 prayers, admin_mail, cr, rt, fd, bc, ex,
                 accountVars>>

notCreateVars == <<user_request, user_request_seq, fcm_token, owner_settings,
                   owner_email, pf, rt, fd, bc, ex,
                   accountVars>>

vars == <<user_request, user_request_seq, fcm_token, owner_settings,
          owner_email, pf, clock, marker, unlink_pending, new_request,
          request_seq, prayers, admin_mail, cr, rt, fd, bc, ex,
          accountVars>>

----------------------------------------------------------------------------
(* The store, as the DDL defines it *)

\* SQLSTATE raised by INSERT INTO user_request (request_id, user_id, ...):
\* the table has a SERIAL primary key and two foreign keys, and no
\* uniqueness constraint over (request_id, user_id).
UserRequestInsertError(rid, uid) ==
    IF rid \notin request \/ uid \notin user THEN "23503" ELSE "00000"

\* SQLSTATE of a statement that the store could not execute at all
StoreFailure == "08006"

RowsOf(rid, uid) ==
    {row \in user_request : row.request_id = rid /\ row.user_id = uid}

\* result of requestOwnerQuery: request JOIN "user" JOIN settings
RequestOwnerRow(rid) ==
    IF rid \in request /\ owner_settings.exists
    THEN [user_id |-> RequestOwner(rid),
          email |-> owner_email,
          fcm_token |-> fcm_token,
          prayer_emails |-> owner_settings.prayer_emails,
          push_notifications |-> owner_settings.push_notifications]
    ELSE NoOwnerRow

----------------------------------------------------------------------------
(* POST /prayFor *)

\* emailResult / pushResult: null, {error: 0, ...} or {error: 1, ...}
Error0 == "error:0"
Error1 == "error:1"

IdleCall ==
    [pc |-> "idle", requestId |-> Missing, userId |-> Missing,
     requestOwner |-> NoOwnerRow,
     emailResult |-> NULL, pushResult |-> NULL,
     status |-> 0, response |-> "none", emailSent |-> FALSE, pushSent |-> FALSE,
     \* history: what this call did, and what it ran next to
     inserted |-> 0, enriched |-> FALSE,
     emailAttempted |-> FALSE, pushAttempted |-> FALSE,
     pushOutcome |-> "none",
     registeredAtEnrich |-> {}, registeredAtErase |-> {},
     storeFault |-> FALSE, inFlightAtStart |-> {}, doneAtStart |-> {}]

\* what admin.messaging().send(message) may do: resolve, or reject with an
\* error code; "not-initialized" stands for firebaseInitialized being false,
\* in which case the provider is not called at all
InvalidTokenCodes ==
    {"messaging/invalid-registration-token",
     "messaging/registration-token-not-registered"}

TransientCodes ==
    {"messaging/message-rate-exceeded", "app/network-error"}

PushOutcomes ==
    {"sent", "not-initialized"} \cup InvalidTokenCodes \cup TransientCodes

\* one outcome of each kind: delivered, token invalid, any other error
PushOutcomeKinds ==
    {"sent", "messaging/registration-token-not-registered",
     "messaging/message-rate-exceeded"}

\* a sendPushNotification that asks for the token's removal on every error
sendPushNotification_RemoveOnAnyError(outcome) ==
    IF outcome = "sent"
    THEN [error |-> Error0, shouldRemoveToken |-> FALSE]
    ELSE [error |-> Error1, shouldRemoveToken |-> TRUE]

\* sendPushNotification(fcmToken, ...) of server.js, called with a token
sendPushNotification(outcome) ==
    CASE outcome = "not-initialized" ->
            [error |-> Error1, shouldRemoveToken |-> FALSE]
      [] outcome = "sent" ->
            [error |-> Error0, shouldRemoveToken |-> FALSE]
      [] outcome \in InvalidTokenCodes ->
            [error |-> Error1, shouldRemoveToken |-> TRUE]
      [] OTHER ->
            [error |-> Error1, shouldRemoveToken |-> FALSE]

\* res.json(...) / res.status(500).json(...): the handler ends
Respond(call, status, response) ==
    [call EXCEPT !.pc = "done", !.status = status, !.response = response]

\* if (!params[requiredParam]) over ["requestId", "userId"]
PrayForMissingParam(rid, uid) == rid = Missing \/ uid = Missing

\* what the handler does with the outcome of the INSERT
InsertSucceeded(code) == code = "00000"

\* requestOwner?.prayer_emails && requestOwner?.email
EmailGuard(owner) == Truthy(owner.prayer_emails) /\ Truthy(owner.email)

\* a guard that looks at the token only
PushGuard_TokenOnly(owner) == Truthy(owner.fcm_token)

\* requestOwner?.push_notifications !== false && requestOwner?.fcm_token
PushGuard(owner) ==
    owner.push_notifications # "false" /\ Truthy(owner.fcm_token)

\* a response path on which a failed push reaches the handler's catch
PrayForSuccess_PushThrows(call) ==
    IF call.pushResult = Error1
    THEN Respond(call, 500, "Internal server error")
    ELSE [Respond(call, 200, "Prayer recorded successfully") EXCEPT
            !.emailSent = (call.emailResult = Error0),
            !.pushSent = (call.pushResult = Error0)]

\* a success response that reports an attempted push as sent
PrayForSuccess_AttemptIsSent(call) ==
    [Respond(call, 200, "Prayer recorded successfully") EXCEPT
        !.emailSent = (call.emailResult = Error0),
        !.pushSent = (call.pushResult # NULL)]

\* the success response
PrayForSuccess(call) ==
    [Respond(call, 200, "Prayer recorded successfully") EXCEPT
        !.emailSent = (call.emailResult = Error0),
        !.pushSent = (call.pushResult = Error0)]

\* Step 5 up to its await, or the response when push is skipped
PrayForPushStep(call) ==
    IF PushGuard(call.requestOwner)
    THEN [call EXCEPT !.pc = "push", !.pushAttempted = TRUE]
    ELSE PrayForSuccess(call)

\* Step 4 up to its await, or on to step 5 when email is skipped
PrayForEmailStep(call) ==
    IF EmailGuard(call.requestOwner)
    THEN [call EXCEPT !.pc = "email", !.emailAttempted = TRUE]
    ELSE PrayForPushStep(call)

\* a catch block that logs the error and lets the handler run on
PrayForCatch_Swallow(call, code) ==
    IF code = "23505"
    THEN Respond(call, 200, "You have already prayed for this request")
    ELSE PrayForEmailStep(
            [call EXCEPT !.requestOwner = RequestOwnerRow(call.requestId)])

\* the catch block of the handler
PrayForCatch(call, code) ==
    IF code = "23505"
    THEN Respond(call, 200, "You have already prayed for this request")
    ELSE Respond(call, 500, "Internal server error")

\* the /registerFCMToken calls that have written the owner's token
Registered == {t \in RegisterCalls : rt[t].committed}

\* the call arrives: validation, then the INSERT is issued
PrayForStart(c, rid, uid) ==
    /\ pf[c].pc = "idle"
    /\ \A d \in PrayCalls : d < c => pf[d].pc # "idle"
    /\ LET started == [pf[c] EXCEPT
                         !.requestId = rid, !.userId = uid,
                         !.inFlightAtStart =
                             {d \in PrayCalls : pf[d].pc \notin {"idle", "done"}},
                         !.doneAtStart =
                             {d \in PrayCalls : pf[d].pc = "done"}]
       IN pf' = [pf EXCEPT ![c] =
                   IF PrayForMissingParam(rid, uid)
                   THEN Respond(started, 200, "Required params missing")
                   ELSE [started EXCEPT !.pc = "insert"]]
    /\ UNCHANGED <<user_request, user_request_seq, fcm_token, owner_settings,
                   owner_email>>
    /\ UNCHANGED notPrayVars

\* the store executes the INSERT and the handler resumes
PrayForInsert(c, fault) ==
    /\ pf[c].pc = "insert"
    /\ LET code == IF fault THEN StoreFailure
                   ELSE UserRequestInsertError(pf[c].requestId, pf[c].userId)
       IN IF InsertSucceeded(code)
          THEN /\ user_request' = user_request \cup
                     {[id |-> user_request_seq,
                       request_id |-> pf[c].requestId,
                       user_id |-> pf[c].userId]}
               /\ user_request_seq' = user_request_seq + 1
               /\ pf' = [pf EXCEPT ![c] =
                           [@ EXCEPT !.pc = "enrich",
                                     !.inserted = user_request_seq]]
          ELSE /\ pf' = [pf EXCEPT ![c] =
                           PrayForCatch([@ EXCEPT !.storeFault = fault], code)]
               /\ UNCHANGED <<user_request, user_request_seq>>
    /\ UNCHANGED <<fcm_token, owner_settings, owner_email>>
    /\ UNCHANGED notPrayVars

\* Promise.all of the two SELECTs resolves (or rejects), then the handler
\* runs on to the first provider call or to the response
PrayForEnrich(c, fault) ==
    /\ pf[c].pc = "enrich"
    /\ pf' = [pf EXCEPT ![c] =
                IF fault
                THEN PrayForCatch([@ EXCEPT !.storeFault = TRUE], StoreFailure)
                ELSE PrayForEmailStep(
                        [@ EXCEPT !.enriched = TRUE,
                                  !.registeredAtEnrich = Registered,
                                  !.requestOwner =
                                     RequestOwnerRow(pf[c].requestId)])]
    /\ UNCHANGED <<user_request, user_request_seq, fcm_token, owner_settings,
                   owner_email>>
    /\ UNCHANGED notPrayVars

\* mailerSendSingle resolves with {error: 0} or {error: 1}, or the email
\* block throws and its catch sets {error: 1}
PrayForEmailDone(c, err) ==
    /\ pf[c].pc = "email"
    /\ pf' = [pf EXCEPT ![c] =
                PrayForPushStep([@ EXCEPT !.emailResult = err])]
    /\ UNCHANGED <<user_request, user_request_seq, fcm_token, owner_settings,
                   owner_email>>
    /\ UNCHANGED notPrayVars

\* sendPushNotification resolves: {error: 0}, {error: 1}, or
\* {error: 1, shouldRemoveToken: true}; in the last case the handler issues
\* the UPDATE that erases the token
PrayForPushDone(c, outcome) ==
    /\ pf[c].pc = "push"
    /\ LET pushResult == sendPushNotification(outcome)
       IN pf' = [pf EXCEPT ![c] =
                   IF pushResult.shouldRemoveToken
                   THEN [@ EXCEPT !.pc = "erase",
                                  !.pushResult = pushResult.error,
                                  !.pushOutcome = outcome]
                   ELSE PrayForSuccess([@ EXCEPT
                                           !.pushResult = pushResult.error,
                                           !.pushOutcome = outcome])]
    /\ UNCHANGED <<user_request, user_request_seq, fcm_token, owner_settings,
                   owner_email>>
    /\ UNCHANGED notPrayVars

\* an UPDATE whose WHERE clause matches no row
PrayForErase_NoRow(c, fault) ==
    /\ pf[c].pc = "erase"
    /\ pf' = [pf EXCEPT ![c] =
                PrayForSuccess([@ EXCEPT
                    !.pushResult = IF fault THEN Error1 ELSE @,
                    !.registeredAtErase = Registered,
                    !.storeFault = @ \/ fault])]
    /\ UNCHANGED <<user_request, user_request_seq, fcm_token, owner_settings,
                   owner_email>>
    /\ UNCHANGED notPrayVars

\* UPDATE "user" SET fcm_token = NULL WHERE user_id = owner; a failure of
\* the UPDATE lands in the push block's catch
PrayForErase(c, fault) ==
    /\ pf[c].pc = "erase"
    /\ fcm_token' = IF fault THEN fcm_token ELSE NULL
    /\ pf' = [pf EXCEPT ![c] =
                PrayForSuccess([@ EXCEPT
                    !.pushResult = IF fault THEN Error1 ELSE @,
                    !.registeredAtErase = Registered,
                    !.storeFault = @ \/ fault])]
    /\ UNCHANGED <<user_request, user_request_seq, owner_settings, owner_email>>
    /\ UNCHANGED notPrayVars

----------------------------------------------------------------------------
(* POST /registerFCMToken *)

IdleRegister ==
    [pc |-> "idle", userId |-> Missing, fcmToken |-> Missing,
     status |-> 0, response |-> "none",
     \* history: whether the UPDATE wrote the owner's token
     committed |-> FALSE]

\* if (!params.userId || !params.fcmToken)
RegisterMissingParam(uid, token) == uid = Missing \/ token = Missing

\* the call arrives: validation, then the UPDATE is issued
RegisterStart(t, uid, token) ==
    /\ rt[t].pc = "idle"
    /\ \A d \in RegisterCalls : d < t => rt[d].pc # "idle"
    /\ LET started == [rt[t] EXCEPT !.userId = uid, !.fcmToken = token]
       IN rt' = [rt EXCEPT ![t] =
                   IF RegisterMissingParam(uid, token)
                   THEN Respond(started, 200,
                           "Required params 'userId' and 'fcmToken' missing")
                   ELSE [started EXCEPT !.pc = "update"]]
    /\ UNCHANGED <<user_request, user_request_seq, fcm_token, owner_settings,
                   owner_email, pf>>
    /\ UNCHANGED <<clock, marker, unlink_pending, new_request, request_seq,
                   prayers, admin_mail, cr, fd, bc, ex,
                   accountVars>>

\* UPDATE "user" SET fcm_token = $1 WHERE user_id = $2 RETURNING ... resolves
RegisterUpdate(t, fault) ==
    /\ rt[t].pc = "update"
    /\ IF fault
       THEN /\ rt' = [rt EXCEPT ![t] = Respond(@, 500, "Internal server error")]
            /\ UNCHANGED fcm_token
       ELSE IF rt[t].userId \notin user
       THEN /\ rt' = [rt EXCEPT ![t] = Respond(@, 200, "User not found")]
            /\ UNCHANGED fcm_token
       ELSE /\ fcm_token' = IF \E r \in request : RequestOwner(r) = rt[t].userId
                            THEN rt[t].fcmToken ELSE fcm_token
            /\ rt' = [rt EXCEPT ![t] =
                        Respond([@ EXCEPT
                            !.committed =
                                \E r \in request : RequestOwner(r) = rt[t].userId],
                          200, "FCM token registered successfully")]
    /\ UNCHANGED <<user_request, user_request_seq, owner_settings, owner_email,
                   pf>>
    /\ UNCHANGED <<clock, marker, unlink_pending, new_request, request_seq,
                   prayers, admin_mail, cr, fd, bc, ex,
                   accountVars>>

----------------------------------------------------------------------------
(* POST /getRequestFeed *)

\* the user whose requests the feed leaves out
ExcludedUser == "569"

IdleFeed ==
    [pc |-> "idle", requestId |-> Missing, userId |-> Missing,
     rows |-> {}, status |-> 0, response |-> "none",
     \* history: the /prayFor calls that had answered success when this call
     \* arrived
     storeFault |-> FALSE, prayedAtStart |-> {}]

\* a feed query without its "You already prayed" clause
FeedRows_NoPrayedClause(rid, uid) ==
    {r \in request :
        /\ owner_settings.exists
        /\ rid # Missing => r = rid
        /\ rid = Missing => RequestOwner(r) # ExcludedUser}

\* the request_ids the feed query selects.  Request "R" is active and has a
\* category and a prayer; the join with settings needs the owner's row.
FeedRows(rid, uid) ==
    {r \in request :
        /\ owner_settings.exists
        /\ rid # Missing => r = rid
        /\ rid = Missing => RequestOwner(r) # ExcludedUser
        /\ (rid = Missing /\ uid # Missing)
              => r \notin {row.request_id : row \in
                             {x \in user_request : x.user_id = uid}}}

\* the call arrives: the query is built and issued
FeedStart(f, rid, uid) ==
    /\ fd[f].pc = "idle"
    /\ \A d \in FeedCalls : d < f => fd[d].pc # "idle"
    /\ fd' = [fd EXCEPT ![f] =
                [@ EXCEPT !.pc = "query", !.requestId = rid, !.userId = uid,
                          !.prayedAtStart =
                              {c \in PrayCalls :
                                  /\ pf[c].pc = "done"
                                  /\ pf[c].response =
                                        "Prayer recorded successfully"}]]
    /\ UNCHANGED <<user_request, user_request_seq, fcm_token, owner_settings,
                   owner_email, pf>>
    /\ UNCHANGED <<clock, marker, unlink_pending, new_request, request_seq,
                   prayers, admin_mail, cr, rt, bc, ex,
                   accountVars>>

\* the query resolves and its rows are the response, or it rejects
FeedQuery(f, fault) ==
    /\ fd[f].pc = "query"
    /\ fd' = [fd EXCEPT ![f] =
                IF fault
                THEN Respond([@ EXCEPT !.storeFault = TRUE],
                             500, "Internal server error")
                ELSE Respond([@ EXCEPT !.rows =
                                  FeedRows(fd[f].requestId, fd[f].userId)],
                             200, "rows")]
    /\ UNCHANGED <<user_request, user_request_seq, fcm_token, owner_settings,
                   owner_email, pf>>
    /\ UNCHANGED <<clock, marker, unlink_pending, new_request, request_seq,
                   prayers, admin_mail, cr, rt, bc, ex,
                   accountVars>>

----------------------------------------------------------------------------
(* POST /sendBroadcastEmail *)

\* milliseconds between two sends
delayBetweenEmails == 600

\* the two addresses every broadcast email is copied to
Paul == "paul@prayoverus.com"
PrayOverUs == "prayoverus@gmail.com"
TrackingAddresses == {Paul, PrayOverUs}

\* values of "user".email: /createUser stores the address as it was typed
Addresses == {Paul, PrayOverUs, "Paul@prayoverus.com", "u1@example.com"}

\* LOWER(email), by which the user lookups identify an address
Lower(a) == IF a = "Paul@prayoverus.com" THEN "paul@prayoverus.com" ELSE a

SameAddress(a, b) == Lower(a) = Lower(b)

\* results of the recipients query: up to MaxRecipients rows
RecipientRows == UNION {[1..n -> Addresses] : n \in 0..MaxRecipients}

IdleBroadcast ==
    [pc |-> "idle", recipientsToSend |-> <<>>, i |-> 1,
     successCount |-> 0, failCount |-> 0, totalRecipients |-> 0,
     status |-> 0, response |-> "none",
     \* history: the provider sends and the delays, in the order they began
     trace |-> <<>>]

SendEvent(to, cc) == [kind |-> "send", to |-> to, cc |-> cc, ms |-> 0]
DelayEvent(ms) == [kind |-> "delay", to |-> "", cc |-> {}, ms |-> ms]

\* the CC list of the email to user.email
ccRecipients(email) ==
    (IF email # Paul THEN {Paul} ELSE {}) \cup
    (IF email # PrayOverUs THEN {PrayOverUs} ELSE {})

\* the head of the for loop at index i: the next email is built and its send
\* is issued, or the loop is over and the aggregate result is the response
BroadcastLoop(b) ==
    IF b.i <= Len(b.recipientsToSend)
    THEN [b EXCEPT !.pc = "send",
                   !.trace = Append(@,
                       SendEvent(b.recipientsToSend[b.i],
                                 ccRecipients(b.recipientsToSend[b.i])))]
    ELSE [Respond(b, 200, "complete") EXCEPT
             !.totalRecipients = Len(b.recipientsToSend)]

\* a catch block that gives up on the remaining recipients
BroadcastSettle_AbortOnFailure(b, ok) ==
    LET counted == IF ok THEN [b EXCEPT !.successCount = @ + 1]
                   ELSE [b EXCEPT !.failCount = @ + 1]
    IN IF ~ok
       THEN [Respond(counted, 200, "complete") EXCEPT
                !.totalRecipients = Len(b.recipientsToSend)]
       ELSE IF b.i < Len(b.recipientsToSend)
       THEN [counted EXCEPT !.pc = "delay",
                            !.trace = Append(@, DelayEvent(delayBetweenEmails))]
       ELSE BroadcastLoop([counted EXCEPT !.i = @ + 1])

\* a catch block that counts the failure and does not wait
BroadcastSettle_NoDelayOnFailure(b, ok) ==
    LET counted == IF ok THEN [b EXCEPT !.successCount = @ + 1]
                   ELSE [b EXCEPT !.failCount = @ + 1]
    IN IF ok /\ b.i < Len(b.recipientsToSend)
       THEN [counted EXCEPT !.pc = "delay",
                            !.trace = Append(@, DelayEvent(delayBetweenEmails))]
       ELSE BroadcastLoop([counted EXCEPT !.i = @ + 1])

\* the send settles: the try block runs on after the await, or the catch
\* block runs; either counts, then waits unless this was the last recipient
BroadcastSettle(b, ok) ==
    LET counted == IF ok THEN [b EXCEPT !.successCount = @ + 1]
                   ELSE [b EXCEPT !.failCount = @ + 1]
    IN IF b.i < Len(b.recipientsToSend)
       THEN [counted EXCEPT !.pc = "delay",
                            !.trace = Append(@, DelayEvent(delayBetweenEmails))]
       ELSE BroadcastLoop([counted EXCEPT !.i = @ + 1])

\* the call arrives: validation; then the recipients query is issued, or in
\* test mode the loop starts with the one fixed recipient
BroadcastStart(paramsOk, includeAllUsers) ==
    /\ bc.pc = "idle"
    /\ bc' = IF ~paramsOk
             THEN Respond(bc, 200, "Required param missing")
             ELSE IF includeAllUsers
             THEN [bc EXCEPT !.pc = "query"]
             ELSE BroadcastLoop([bc EXCEPT !.recipientsToSend = <<Paul>>])
    /\ UNCHANGED <<user_request, user_request_seq, fcm_token, owner_settings,
                   owner_email, pf>>
    /\ UNCHANGED <<clock, marker, unlink_pending, new_request, request_seq,
                   prayers, admin_mail, cr, rt, fd, ex,
                   accountVars>>

\* the recipients query resolves with its rows, or rejects
BroadcastQuery(rows, fault) ==
    /\ bc.pc = "query"
    /\ bc' = IF fault
             THEN Respond(bc, 200, "error")
             ELSE BroadcastLoop([bc EXCEPT !.recipientsToSend = rows])
    /\ UNCHANGED <<user_request, user_request_seq, fcm_token, owner_settings,
                   owner_email, pf>>
    /\ UNCHANGED <<clock, marker, unlink_pending, new_request, request_seq,
                   prayers, admin_mail, cr, rt, fd, ex,
                   accountVars>>

\* mailerSend.email.send resolves or rejects
BroadcastSendDone(ok) ==
    /\ bc.pc = "send"
    /\ bc' = BroadcastSettle(bc, ok)
    /\ UNCHANGED <<user_request, user_request_seq, fcm_token, owner_settings,
                   owner_email, pf>>
    /\ UNCHANGED <<clock, marker, unlink_pending, new_request, request_seq,
                   prayers, admin_mail, cr, rt, fd, ex,
                   accountVars>>

\* the timer of the delay fires: i++ and the loop goes round
BroadcastDelayDone ==
    /\ bc.pc = "delay"
    /\ bc' = BroadcastLoop([bc EXCEPT !.i = @ + 1])
    /\ UNCHANGED <<user_request, user_request_seq, fcm_token, owner_settings,
                   owner_email, pf>>
    /\ UNCHANGED <<clock, marker, unlink_pending, new_request, request_seq,
                   prayers, admin_mail, cr, rt, fd, ex,
                   accountVars>>

----------------------------------------------------------------------------
(* sendPushNotification of pushNotifications.js (Expo) *)

\* milliseconds between the ticket and the poll for its receipt
ReceiptWait == 1000

\* values passed as pushToken
PushTokens == {"ExponentPushToken[T1]", "ExpoPushToken[T2]", "fcm:T3"}

\* Expo.isExpoPushToken(pushToken)
isExpoPushToken(token) ==
    token \in {"ExponentPushToken[T1]", "ExpoPushToken[T2]"}

\* what sendPushNotificationsAsync may do: a ticket that is ok, a ticket
\* with an error, no ticket at all, or a rejection
TicketOutcomes ==
    {"ok", "DeviceNotRegistered", "MessageRateExceeded", "empty", "throws"}

\* what getPushNotificationReceiptsAsync may do
ReceiptOutcomes ==
    {"ok", "DeviceNotRegistered", "MessageRateExceeded", "missing", "throws"}

IdleSend ==
    [pc |-> "idle", pushToken |-> "none", ticket |-> "none", receipt |-> "none",
     success |-> FALSE, shouldRemoveToken |-> FALSE, receiptStatus |-> "none",
     \* history: the steps taken, in order
     trace |-> <<>>]

Step(name, ms) == [step |-> name, ms |-> ms]

\* return { success, shouldRemoveToken, ... }
Return(send, success, remove, receiptStatus) ==
    [send EXCEPT !.pc = "done", !.success = success,
                 !.shouldRemoveToken = remove, !.receiptStatus = receiptStatus]

\* a receipt phase that reports a failure when it could not see a receipt
ReceiptResult_UnseenIsFailure(send, outcome) ==
    CASE outcome = "DeviceNotRegistered" -> Return(send, FALSE, TRUE, "error")
      [] outcome = "ok" -> Return(send, TRUE, FALSE, "ok")
      [] OTHER -> Return(send, FALSE, FALSE, "error")

\* the receipt phase: the inner try and its catch
ReceiptResult(send, outcome) ==
    CASE outcome = "DeviceNotRegistered" -> Return(send, FALSE, TRUE, "error")
      [] outcome = "MessageRateExceeded" -> Return(send, FALSE, FALSE, "error")
      [] outcome = "ok" -> Return(send, TRUE, FALSE, "ok")
      [] outcome = "missing" -> Return(send, TRUE, FALSE, "pending")
      [] outcome = "throws" -> Return(send, TRUE, FALSE, "unknown")

\* the function is called: the format check, then the message is submitted
ExpoStart(s, token) ==
    /\ ex[s].pc = "idle"
    /\ \A d \in PushSends : d < s => ex[d].pc # "idle"
    /\ ex' = [ex EXCEPT ![s] =
                IF ~isExpoPushToken(token)
                THEN Return([@ EXCEPT !.pushToken = token], FALSE, TRUE, "none")
                ELSE [@ EXCEPT !.pc = "ticket", !.pushToken = token,
                               !.trace = Append(@, Step("submit", 0))]]
    /\ UNCHANGED <<user_request, user_request_seq, fcm_token, owner_settings,
                   owner_email, pf>>
    /\ UNCHANGED <<clock, marker, unlink_pending, new_request, request_seq,
                   prayers, admin_mail, cr, rt, fd, bc,
                   accountVars>>

\* sendPushNotificationsAsync settles: a ticket error or a throw ends the
\* function, an ok ticket starts the wait
ExpoTicket(s, outcome) ==
    /\ ex[s].pc = "ticket"
    /\ ex' = [ex EXCEPT ![s] =
                LET got == [@ EXCEPT !.ticket = outcome]
                IN CASE outcome = "ok" ->
                          [got EXCEPT !.pc = "wait",
                                      !.trace = Append(@, Step("wait", ReceiptWait))]
                     [] outcome = "DeviceNotRegistered" ->
                          Return(got, FALSE, TRUE, "none")
                     [] OTHER -> Return(got, FALSE, FALSE, "none")]
    /\ UNCHANGED <<user_request, user_request_seq, fcm_token, owner_settings,
                   owner_email, pf>>
    /\ UNCHANGED <<clock, marker, unlink_pending, new_request, request_seq,
                   prayers, admin_mail, cr, rt, fd, bc,
                   accountVars>>

\* the timer fires: the receipt is asked for
ExpoWaitDone(s) ==
    /\ ex[s].pc = "wait"
    /\ ex' = [ex EXCEPT ![s] =
                [@ EXCEPT !.pc = "receipt",
                          !.trace = Append(@, Step("poll", 0))]]
    /\ UNCHANGED <<user_request, user_request_seq, fcm_token, owner_settings,
                   owner_email, pf>>
    /\ UNCHANGED <<clock, marker, unlink_pending, new_request, request_seq,
                   prayers, admin_mail, cr, rt, fd, bc,
                   accountVars>>

\* getPushNotificationReceiptsAsync settles
ExpoReceipt(s, outcome) ==
    /\ ex[s].pc = "receipt"
    /\ ex' = [ex EXCEPT ![s] =
                ReceiptResult([@ EXCEPT !.receipt = outcome], outcome)]
    /\ UNCHANGED <<user_request, user_request_seq, fcm_token, owner_settings,
                   owner_email, pf>>
    /\ UNCHANGED <<clock, marker, unlink_pending, new_request, request_seq,
                   prayers, admin_mail, cr, rt, fd, bc,
                   accountVars>>

----------------------------------------------------------------------------
(* POST /createRequestAndPrayer: handleCreateRequestAndPrayer *)

\* the guard entries expire after one hour (replit.md, Idempotency Keys)
ExpiryWindow == 1

PENDING_IMAGE_UPLOAD == "PENDING_IMAGE_UPLOAD"
ImageUrl == "https://shouldcallpaul.replit.app/prayer-images/<id>_prayer.<ext>"

IdleCreate ==
    [pc |-> "idle", idempotencyKey |-> "none", userId |-> Missing,
     hasFile |-> FALSE, requestId |-> 0, prayerId |-> 0,
     status |-> 0, response |-> "none",
     \* history
     accepted |-> FALSE, foundAge |-> 0, startedAt |-> 0, storeFault |-> FALSE,
     writeFailed |-> FALSE,
     inFlightAtStart |-> {}, doneAtStart |-> {}, succeededAtStart |-> {}]

\* an existsSync on a path other than the one the marker is written to
fsExistsSync_WrongPath(key) == FALSE

\* fs.existsSync(newRequestCheck)
fsExistsSync(key) == marker[key] # NoFile

\* age in hours of the file of a key
MarkerAge(key) == clock - marker[key].at

\* the outer catch of the handler: cleanupFile(), then HTTP 500
CreateOuterCatch(call) ==
    Respond([call EXCEPT !.storeFault = TRUE], 500, "Internal server error")

\* the catch around prayer generation (fetch, INSERT prayers, UPDATE request)
CreateChatCatch(call) == Respond(call, 200, "Failed to generate prayer")

\* a handler that logs a failed marker write and carries on
CreateStart_IgnoreWriteError(c, key, paramsOk, uid, file, writeFails) ==
    /\ cr[c].pc = "idle"
    /\ \A d \in CreateCalls : d < c => cr[d].pc # "idle"
    /\ LET started == [cr[c] EXCEPT
                         !.idempotencyKey = key, !.userId = uid,
                         !.hasFile = file, !.startedAt = clock,
                         !.writeFailed = (~fsExistsSync(key) /\ writeFails),
                         !.inFlightAtStart =
                             {d \in CreateCalls : cr[d].pc \notin {"idle", "done"}},
                         !.doneAtStart =
                             {d \in CreateCalls : cr[d].pc = "done"},
                         !.succeededAtStart =
                             {d \in CreateCalls : cr[d].pc = "done"
                                                  /\ cr[d].response = "success"}]
       IN IF fsExistsSync(key)
          THEN /\ cr' = [cr EXCEPT ![c] =
                           Respond([started EXCEPT !.foundAge = MarkerAge(key)],
                                   200, "File for key already exists")]
               /\ UNCHANGED marker
          ELSE /\ marker' = IF writeFails THEN marker
                          ELSE [marker EXCEPT ![key] = [by |-> c, at |-> clock]]
               /\ cr' = [cr EXCEPT ![c] =
                           IF paramsOk
                           THEN [started EXCEPT !.pc = "insertRequest",
                                                !.accepted = TRUE]
                           ELSE Respond([started EXCEPT !.accepted = TRUE],
                                        200, "Required param missing")]
    /\ UNCHANGED <<clock, unlink_pending, new_request, request_seq, prayers,
                   admin_mail>>
    /\ UNCHANGED notCreateVars

\* the call arrives: guard check, marker write, validation, and the INSERT
\* into request is issued; all of it before the handler's first await
CreateStart(c, key, paramsOk, uid, file, writeFails) ==
    /\ cr[c].pc = "idle"
    /\ \A d \in CreateCalls : d < c => cr[d].pc # "idle"
    /\ LET started == [cr[c] EXCEPT
                         !.idempotencyKey = key, !.userId = uid,
                         !.hasFile = file, !.startedAt = clock,
                         !.writeFailed = (~fsExistsSync(key) /\ writeFails),
                         !.inFlightAtStart =
                             {d \in CreateCalls : cr[d].pc \notin {"idle", "done"}},
                         !.doneAtStart =
                             {d \in CreateCalls : cr[d].pc = "done"},
                         !.succeededAtStart =
                             {d \in CreateCalls : cr[d].pc = "done"
                                                  /\ cr[d].response = "success"}]
       IN IF fsExistsSync(key)
          THEN /\ cr' = [cr EXCEPT ![c] =
                           Respond([started EXCEPT !.foundAge = MarkerAge(key)],
                                   200, "File for key already exists")]
               /\ UNCHANGED marker
          ELSE IF writeFails
          THEN /\ cr' = [cr EXCEPT ![c] =
                           Respond(started, 500, "Could not create request file")]
               /\ UNCHANGED marker
          ELSE /\ marker' = [marker EXCEPT ![key] = [by |-> c, at |-> clock]]
               /\ cr' = [cr EXCEPT ![c] =
                           IF paramsOk
                           THEN [started EXCEPT !.pc = "insertRequest",
                                                !.accepted = TRUE]
                           ELSE Respond([started EXCEPT !.accepted = TRUE],
                                        200, "Required param missing")]
    /\ UNCHANGED <<clock, unlink_pending, new_request, request_seq, prayers,
                   admin_mail>>
    /\ UNCHANGED notCreateVars

\* the INSERT into request resolves; with an uploaded image the handler then
\* writes the file and issues the UPDATE of picture, else the user SELECT
CreateInsertRequest(c, fault, imageWriteFails) ==
    /\ cr[c].pc = "insertRequest"
    /\ IF fault
       THEN /\ cr' = [cr EXCEPT ![c] = CreateOuterCatch(@)]
            /\ UNCHANGED <<new_request, request_seq>>
       ELSE /\ new_request' = new_request \cup
                  {[request_id |-> request_seq, by |-> c,
                    key |-> cr[c].idempotencyKey,
                    user_id |-> cr[c].userId,
                    picture |-> IF cr[c].hasFile THEN PENDING_IMAGE_UPLOAD
                                ELSE NULL,
                    fk_prayer_id |-> 0]}
            /\ request_seq' = request_seq + 1
            /\ cr' = [cr EXCEPT ![c] =
                        [@ EXCEPT !.requestId = request_seq,
                                  !.pc = IF cr[c].hasFile /\ ~imageWriteFails
                                         THEN "updatePicture"
                                         ELSE "userQuery"]]
    /\ UNCHANGED <<clock, marker, unlink_pending, prayers, admin_mail>>
    /\ UNCHANGED notCreateVars

\* UPDATE request SET picture = url resolves; a failure is caught and the
\* handler continues without the image
CreateUpdatePicture(c, fault) ==
    /\ cr[c].pc = "updatePicture"
    /\ new_request' =
          IF fault THEN new_request
          ELSE {IF row.request_id = cr[c].requestId
                THEN [row EXCEPT !.picture = ImageUrl] ELSE row
                : row \in new_request}
    /\ cr' = [cr EXCEPT ![c] = [@ EXCEPT !.pc = "userQuery"]]
    /\ UNCHANGED <<clock, marker, unlink_pending, request_seq, prayers,
                   admin_mail>>
    /\ UNCHANGED notCreateVars

\* the SELECT of the author resolves
CreateUserQuery(c, fault) ==
    /\ cr[c].pc = "userQuery"
    /\ cr' = [cr EXCEPT ![c] =
                IF fault THEN CreateOuterCatch(@)
                ELSE IF cr[c].userId \notin user
                THEN Respond(@, 200, "User not found")
                ELSE [@ EXCEPT !.pc = "chat"]]
    /\ UNCHANGED <<clock, marker, unlink_pending, new_request, request_seq,
                   prayers, admin_mail>>
    /\ UNCHANGED notCreateVars

\* the call to /getChatCompletion resolves: choices, no choices, or a throw
CreateChat(c, outcome) ==
    /\ cr[c].pc = "chat"
    /\ cr' = [cr EXCEPT ![c] =
                CASE outcome = "choices" -> [@ EXCEPT !.pc = "insertPrayer"]
                  [] outcome = "empty" ->
                        Respond(@, 200, "Failed to get a prayer from OpenAI")
                  [] outcome = "throws" -> CreateChatCatch(@)]
    /\ UNCHANGED <<clock, marker, unlink_pending, new_request, request_seq,
                   prayers, admin_mail>>
    /\ UNCHANGED notCreateVars

\* INSERT INTO prayers resolves
CreateInsertPrayer(c, fault) ==
    /\ cr[c].pc = "insertPrayer"
    /\ IF fault
       THEN /\ cr' = [cr EXCEPT ![c] =
                        CreateChatCatch([@ EXCEPT !.storeFault = TRUE])]
            /\ UNCHANGED prayers
       ELSE /\ prayers' = prayers \cup {Cardinality(prayers) + 1}
            /\ cr' = [cr EXCEPT ![c] =
                        [@ EXCEPT !.prayerId = Cardinality(prayers) + 1,
                                  !.pc = "updateRequest"]]
    /\ UNCHANGED <<clock, marker, unlink_pending, new_request, request_seq,
                   admin_mail>>
    /\ UNCHANGED notCreateVars

\* UPDATE request SET fk_prayer_id resolves; then the success response, the
\* admin email is started without being awaited, and fs.unlink of the marker
\* is issued
CreateUpdateRequest(c, fault) ==
    /\ cr[c].pc = "updateRequest"
    /\ IF fault
       THEN /\ cr' = [cr EXCEPT ![c] =
                        CreateChatCatch([@ EXCEPT !.storeFault = TRUE])]
            /\ UNCHANGED <<new_request, admin_mail, unlink_pending>>
       ELSE /\ new_request' =
                  {IF row.request_id = cr[c].requestId
                   THEN [row EXCEPT !.fk_prayer_id = cr[c].prayerId] ELSE row
                   : row \in new_request}
            /\ cr' = [cr EXCEPT ![c] = Respond(@, 200, "success")]
            /\ admin_mail' = [admin_mail EXCEPT ![c] = "sending"]
            /\ unlink_pending' =
                  IF fsExistsSync(cr[c].idempotencyKey)
                  THEN unlink_pending \cup
                          {[key |-> cr[c].idempotencyKey, by |-> c]}
                  ELSE unlink_pending
    /\ UNCHANGED <<clock, marker, request_seq, prayers>>
    /\ UNCHANGED notCreateVars

\* the file system performs an issued fs.unlink and calls back
FsUnlink(u, err) ==
    /\ u \in unlink_pending
    /\ unlink_pending' = unlink_pending \ {u}
    /\ marker' = IF err THEN marker ELSE [marker EXCEPT ![u.key] = NoFile]
    /\ UNCHANGED <<clock, new_request, request_seq, prayers, admin_mail, cr>>
    /\ UNCHANGED notCreateVars

\* an admin email whose failure is reported to the caller
AdminMailDone_FailureReported(c, err) ==
    /\ admin_mail[c] = "sending"
    /\ admin_mail' = [admin_mail EXCEPT ![c] = err]
    /\ cr' = [cr EXCEPT ![c] =
                IF err = "failed"
                THEN Respond(@, 500, "Internal server error") ELSE @]
    /\ UNCHANGED <<clock, marker, unlink_pending, new_request, request_seq,
                   prayers>>
    /\ UNCHANGED notCreateVars

\* the detached mailerSendSingle settles
AdminMailDone(c, err) ==
    /\ admin_mail[c] = "sending"
    /\ admin_mail' = [admin_mail EXCEPT ![c] = err]
    /\ UNCHANGED <<clock, marker, unlink_pending, new_request, request_seq,
                   prayers, cr>>
    /\ UNCHANGED notCreateVars

\* an hour passes; the clock is read only against the age of a marker
\* file, so the hours before any file exists are not counted
Tick ==
    /\ clock < MaxClock
    /\ \E k \in Keys : fsExistsSync(k)
    /\ clock' = clock + 1
    /\ UNCHANGED <<marker, unlink_pending, new_request, request_seq, prayers,
                   admin_mail, cr>>
    /\ UNCHANGED notCreateVars

----------------------------------------------------------------------------
(* The account tables *)

\* what the account handlers leave alone
notAccountVars == <<user_request, user_request_seq, fcm_token, owner_settings,
                    owner_email, pf, clock, marker, unlink_pending,
                    new_request, request_seq, prayers, admin_mail, cr,
                    rt, fd, bc, ex>>

\* rows deleted or inserted by a transaction that is still open
NoRows == [user |-> {}, settings |-> {}, request |-> {}, user_request |-> {}]

\* COMMIT of a transaction that deleted the rows del; user_request_user_fk
\* and user_request_request_fk are ON DELETE CASCADE, so a prayer record
\* goes with the user or the request it references
CommitDeletes(dbv, del) ==
    [dbv EXCEPT
        !.user = @ \ del.user,
        !.settings = @ \ del.settings,
        !.request = @ \ del.request,
        !.user_request =
            {x \in @ \ del.user_request :
                /\ \E u \in dbv.user \ del.user : u.user_id = x.user_id
                /\ \E r \in dbv.request \ del.request :
                      r.request_id = x.request_id}]

\* the account tables before any call of the account handlers: two active
\* users and an inactive one, their settings, a request of each active user,
\* prayer records, and a password reset token of user 1 issued at time 0
SeedDb ==
    [user |-> {[user_id |-> 1, email |-> "u1@example.com", password |-> 0,
                active |-> 1],
               [user_id |-> 2, email |-> Paul, password |-> 0, active |-> 1],
               [user_id |-> 3, email |-> PrayOverUs, password |-> 0,
                active |-> 0]},
     settings |-> {[user_id |-> 1], [user_id |-> 2], [user_id |-> 3]},
     request |-> {[request_id |-> 1, user_id |-> 1],
                  [request_id |-> 2, user_id |-> 2]},
     user_request |-> {[id |-> 1, request_id |-> 1, user_id |-> 2],
                       [id |-> 2, request_id |-> 2, user_id |-> 1],
                       [id |-> 3, request_id |-> 1, user_id |-> 1]},
     password_reset_tokens |->
        {[token |-> "T1", user_id |-> 1, expires_at |-> 1, used |-> FALSE,
          created_at |-> 0]}]

\* an answer of the account handlers: res.json({error, result})
Answer(call, error, result) ==
    [call EXCEPT !.pc = "done", !.error = error, !.response = result]

----------------------------------------------------------------------------
(* POST /deleteUser *)

\* what the handler awaits after the user check, in order: pg_dump,
\* pool.connect(), BEGIN and the five DELETE statements
DeleteStatements ==
    <<"backup", "connect", "BEGIN",
      "deleteUserRequestSelf", "deleteUserRequestOthers", "deleteRequests",
      "deleteSettings", "deleteUser">>

\* the rows a DELETE statement of call d matches: committed rows that the
\* call's own transaction has not deleted yet
MatchedRows(d, statement) ==
    LET uid == du[d].userId
        mine == {r \in db.request \ du[d].deleted.request : r.user_id = uid}
    IN CASE statement = "deleteUserRequestSelf" ->
              [NoRows EXCEPT !.user_request =
                  {x \in db.user_request \ du[d].deleted.user_request :
                      x.user_id = uid}]
         [] statement = "deleteUserRequestOthers" ->
              [NoRows EXCEPT !.user_request =
                  {x \in db.user_request \ du[d].deleted.user_request :
                      \E r \in mine : r.request_id = x.request_id}]
         [] statement = "deleteRequests" ->
              [NoRows EXCEPT !.request = mine]
         [] statement = "deleteSettings" ->
              [NoRows EXCEPT !.settings =
                  {s \in db.settings \ du[d].deleted.settings :
                      s.user_id = uid}]
         [] statement = "deleteUser" ->
              [NoRows EXCEPT !.user =
                  {u \in db.user \ du[d].deleted.user : u.user_id = uid}]
         [] OTHER -> NoRows

\* a DELETE waits while another open transaction holds one of its rows
Blocked(d, statement) ==
    \E t \in DOMAIN NoRows, e \in (1..MaxDeleteCalls) \ {d} :
        MatchedRows(d, statement)[t] \cap du[e].deleted[t] # {}

\* the call arrives: validation, then the user check is issued
DeleteStart(d, uid) ==
    /\ du[d].pc = "idle"
    /\ \A e \in 1..MaxDeleteCalls : e < d => du[e].pc # "idle"
    /\ du' = [du EXCEPT ![d] =
                IF uid = 0
                THEN Answer(@, 1, "Required param 'userId' missing")
                ELSE [@ EXCEPT !.userId = uid, !.pc = "userCheck"]]
    /\ UNCHANGED <<db, cu, rp, rq>>
    /\ UNCHANGED notAccountVars

\* SELECT ... FROM public.user WHERE user_id = $1 resolves; a throw goes to
\* the outer catch
DeleteUserCheck(d, fault) ==
    /\ du[d].pc = "userCheck"
    /\ LET rows == {u \in db.user : u.user_id = du[d].userId}
       IN du' = [du EXCEPT ![d] =
                   IF fault
                   THEN Answer([@ EXCEPT !.storeFault = TRUE], 1,
                               "Internal server error")
                   ELSE IF rows = {} THEN Answer(@, 1, "User not found")
                   ELSE IF \E u \in rows : u.active # 1
                   THEN Answer(@, 1, "User is already inactive or deleted")
                   ELSE [@ EXCEPT !.pc = DeleteStatements[1]]]
    /\ UNCHANGED <<db, cu, rp, rq>>
    /\ UNCHANGED notAccountVars

\* the catch of a handler whose statements are not in a transaction: the
\* deletes made so far stay
DeleteRollback_KeepsDeletes(d) ==
    /\ du[d].pc = "ROLLBACK"
    /\ db' = CommitDeletes(db, du[d].deleted)
    /\ du' = [du EXCEPT ![d] =
                Answer([@ EXCEPT !.deleted = NoRows], 1,
                       "Failed to delete user")]
    /\ UNCHANGED <<cu, rp, rq>>
    /\ UNCHANGED notAccountVars

\* what the handler awaits resolves.  pg_dump: on failure the handler
\* answers that the backup failed.  pool.connect(): a throw goes to the
\* outer catch.  BEGIN or a DELETE: the rows the DELETE matched are deleted
\* in the transaction and the next statement (or COMMIT) is issued; a
\* failure goes to the catch, which issues ROLLBACK.
DeleteStatement(d, i, fault) ==
    /\ du[d].pc = DeleteStatements[i]
    /\ fault \/ ~Blocked(d, DeleteStatements[i])
    /\ LET rows == MatchedRows(d, DeleteStatements[i])
       IN du' = [du EXCEPT ![d] =
                   IF fault /\ DeleteStatements[i] = "backup"
                   THEN Answer(@, 1, "Failed to create database backup")
                   ELSE IF fault /\ DeleteStatements[i] = "connect"
                   THEN Answer([@ EXCEPT !.storeFault = TRUE], 1,
                               "Internal server error")
                   ELSE IF fault
                   THEN [@ EXCEPT !.pc = "ROLLBACK", !.storeFault = TRUE,
                                  !.deletedAtFault = du[d].deleted]
                   ELSE [@ EXCEPT
                           !.deleted = [t \in DOMAIN NoRows |-> @[t] \cup rows[t]],
                           !.pc = IF i < Len(DeleteStatements)
                                  THEN DeleteStatements[i + 1]
                                  ELSE "COMMIT"]]
    /\ UNCHANGED <<db, cu, rp, rq>>
    /\ UNCHANGED notAccountVars

\* COMMIT resolves: the deletes take effect together and the handler
\* answers success; a failure goes to the catch
DeleteCommit(d, fault) ==
    /\ du[d].pc = "COMMIT"
    /\ IF fault
       THEN /\ du' = [du EXCEPT ![d] =
                        [@ EXCEPT !.pc = "ROLLBACK", !.storeFault = TRUE,
                                  !.deletedAtFault = du[d].deleted]]
            /\ UNCHANGED db
       ELSE /\ db' = CommitDeletes(db, du[d].deleted)
            /\ du' = [du EXCEPT ![d] =
                        Answer([@ EXCEPT !.deleted = NoRows], 0,
                               "User deleted successfully")]
    /\ UNCHANGED <<cu, rp, rq>>
    /\ UNCHANGED notAccountVars

\* ROLLBACK resolves: the transaction's deletes are dropped and the handler
\* answers "Failed to delete user: ..."
DeleteRollback(d) ==
    /\ du[d].pc = "ROLLBACK"
    /\ du' = [du EXCEPT ![d] =
                Answer([@ EXCEPT !.deleted = NoRows], 1,
                       "Failed to delete user")]
    /\ UNCHANGED <<db, cu, rp, rq>>
    /\ UNCHANGED notAccountVars

----------------------------------------------------------------------------
(* POST /createUser *)

\* the call arrives: validation of email and firstName, then the email
\* check is issued
CreateUserStart(c, email) ==
    /\ cu[c].pc = "idle"
    /\ \A e \in 1..MaxCreateUserCalls : e < c => cu[e].pc # "idle"
    /\ cu' = [cu EXCEPT ![c] =
                IF email = ""
                THEN Answer(@, 1, "Required params 'email' missing")
                ELSE [@ EXCEPT !.email = email, !.pc = "emailCheck"]]
    /\ UNCHANGED <<db, du, rp, rq>>
    /\ UNCHANGED notAccountVars

\* SELECT user_id FROM public.user WHERE email = $1 resolves; then
\* bcrypt.hash is awaited.  A throw goes to the outer catch.
CreateUserEmailCheck(c, fault) ==
    /\ cu[c].pc = "emailCheck"
    /\ cu' = [cu EXCEPT ![c] =
                IF fault
                THEN Answer([@ EXCEPT !.storeFault = TRUE], 1,
                            "Internal server error")
                ELSE IF \E u \in db.user : u.email = cu[c].email
                THEN Answer(@, 1,
                        "An account with this email address already exists")
                ELSE [@ EXCEPT !.pc = "hash"]]
    /\ UNCHANGED <<db, du, rp, rq>>
    /\ UNCHANGED notAccountVars

\* bcrypt.hash, then pool.connect(), then BEGIN resolves and the next is
\* awaited, after BEGIN the MAX(user_id) query.  A throw of pool.connect()
\* goes to the outer catch, a throw of BEGIN to the inner catch (ROLLBACK).
CreateUserAwait(c, fault) ==
    /\ cu[c].pc \in {"hash", "connect", "BEGIN"}
    /\ cu[c].pc = "hash" => ~fault
    /\ cu' = [cu EXCEPT ![c] =
                IF fault /\ cu[c].pc = "connect"
                THEN Answer([@ EXCEPT !.storeFault = TRUE], 1,
                            "Internal server error")
                ELSE IF fault
                THEN [@ EXCEPT !.pc = "ROLLBACK", !.storeFault = TRUE]
                ELSE [@ EXCEPT !.pc = CASE cu[c].pc = "hash" -> "connect"
                                        [] cu[c].pc = "connect" -> "BEGIN"
                                        [] cu[c].pc = "BEGIN" -> "maxId"]]
    /\ UNCHANGED <<db, du, rp, rq>>
    /\ UNCHANGED notAccountVars

\* SELECT COALESCE(MAX(user_id), 0) + 1 resolves over the committed rows;
\* the INSERT of the user row is issued
CreateUserMaxId(c, fault) ==
    /\ cu[c].pc = "maxId"
    /\ LET ids == {u.user_id : u \in db.user}
           next_id == IF ids = {} THEN 1
                      ELSE 1 + CHOOSE n \in ids : \A k \in ids : k <= n
       IN cu' = [cu EXCEPT ![c] =
                   IF fault
                   THEN [@ EXCEPT !.pc = "ROLLBACK", !.storeFault = TRUE]
                   ELSE [@ EXCEPT !.nextUserId = next_id,
                                  !.pc = "insertUser"]]
    /\ UNCHANGED <<db, du, rp, rq>>
    /\ UNCHANGED notAccountVars

\* INSERT INTO public.user resolves.  user_id is the primary key: the
\* INSERT fails when a committed row has the id, and waits while an open
\* transaction has inserted it.  email carries no constraint.
CreateUserInsertUser(c, fault) ==
    /\ cu[c].pc = "insertUser"
    /\ LET id == cu[c].nextUserId
           duplicate == \E u \in db.user : u.user_id = id
           waits == \E e \in (1..MaxCreateUserCalls) \ {c} :
                        \E u \in cu[e].userRow : u.user_id = id
       IN /\ fault \/ duplicate \/ ~waits
          /\ cu' = [cu EXCEPT ![c] =
                      IF fault \/ duplicate
                      THEN [@ EXCEPT !.pc = "ROLLBACK",
                                     !.storeFault = fault]
                      ELSE [@ EXCEPT
                              !.userRow = {[user_id |-> id,
                                            email |-> cu[c].email,
                                            password |-> 0, active |-> 1]},
                              !.pc = "insertSettings"]]
    /\ UNCHANGED <<db, du, rp, rq>>
    /\ UNCHANGED notAccountVars

\* INSERT INTO public.settings resolves; COMMIT is issued
CreateUserInsertSettings(c, fault) ==
    /\ cu[c].pc = "insertSettings"
    /\ cu' = [cu EXCEPT ![c] =
                IF fault
                THEN [@ EXCEPT !.pc = "ROLLBACK", !.storeFault = TRUE]
                ELSE [@ EXCEPT
                        !.settingsRow = {[user_id |-> cu[c].nextUserId]},
                        !.pc = "COMMIT"]]
    /\ UNCHANGED <<db, du, rp, rq>>
    /\ UNCHANGED notAccountVars

\* COMMIT resolves: the rows become visible; the welcome email is started
\* without being awaited and the handler answers success
CreateUserCommit(c, fault) ==
    /\ cu[c].pc = "COMMIT"
    /\ IF fault
       THEN /\ cu' = [cu EXCEPT ![c] =
                        [@ EXCEPT !.pc = "ROLLBACK", !.storeFault = TRUE]]
            /\ UNCHANGED db
       ELSE /\ db' = [db EXCEPT !.user = @ \cup cu[c].userRow,
                                !.settings = @ \cup cu[c].settingsRow]
            /\ cu' = [cu EXCEPT ![c] =
                        Answer([@ EXCEPT !.userRow = {}, !.settingsRow = {}],
                               0, "User created successfully")]
    /\ UNCHANGED <<du, rp, rq>>
    /\ UNCHANGED notAccountVars

\* ROLLBACK resolves; the error is rethrown to the outer catch, which
\* answers {error: 1, result: error.message}
CreateUserRollback(c) ==
    /\ cu[c].pc = "ROLLBACK"
    /\ cu' = [cu EXCEPT ![c] =
                Answer([@ EXCEPT !.userRow = {}, !.settingsRow = {}], 1,
                       "Internal server error")]
    /\ UNCHANGED <<db, du, rp, rq>>
    /\ UNCHANGED notAccountVars

----------------------------------------------------------------------------
(* POST /requestPasswordReset and POST /resetPassword *)

\* time passes, in hours
TokenTick ==
    /\ clock < MaxClock
    /\ clock' = clock + 1
    /\ UNCHANGED <<user_request, user_request_seq, fcm_token, owner_settings,
                   owner_email, pf, marker, unlink_pending, new_request,
                   request_seq, prayers, admin_mail, cr, rt, fd, bc, ex>>
    /\ UNCHANGED accountVars

\* the answer /requestPasswordReset gives whether or not it sent a link
GenericAnswer ==
    "If that email exists, you'll receive a password reset link shortly."

\* the answer of the catch of both handlers
ErrorAnswer == "An error occurred. Please try again later."

\* the call arrives; failing names the operation that will fail in this
\* run, if any
RequestResetStart(q, email, failing) ==
    /\ rq[q].pc = "idle"
    /\ \A e \in 1..MaxResetRequests : e < q => rq[e].pc # "idle"
    /\ rq' = [rq EXCEPT ![q] =
                IF email = ""
                THEN Answer([@ EXCEPT !.failing = failing], 1,
                            "Email is required")
                ELSE [@ EXCEPT !.email = Lower(email), !.failing = failing,
                               !.pc = "userQuery"]]
    /\ UNCHANGED <<db, du, cu, rp>>
    /\ UNCHANGED notAccountVars

\* SELECT ... WHERE LOWER(email) = $1 AND active = 1 resolves
RequestResetUserQuery(q) ==
    /\ rq[q].pc = "userQuery"
    /\ LET rows == {u \in db.user :
                       Lower(u.email) = rq[q].email /\ u.active = 1}
       IN rq' = [rq EXCEPT ![q] =
                   IF rq[q].failing = "userQuery" THEN Answer(@, 1, ErrorAnswer)
                   ELSE IF rows = {} THEN Answer(@, 0, GenericAnswer)
                   ELSE [@ EXCEPT
                           !.user_id = (CHOOSE u \in rows : TRUE).user_id,
                           !.pc = "recentTokenQuery"]]
    /\ UNCHANGED <<db, du, cu, rp>>
    /\ UNCHANGED notAccountVars

\* the query for a token created in the last five minutes resolves; if
\* there is none, a token no row carries is generated
\* (crypto.randomBytes), its expiry set one hour ahead, and its INSERT
\* issued
RequestResetRecentQuery(q) ==
    /\ rq[q].pc = "recentTokenQuery"
    /\ LET recent == {t \in db.password_reset_tokens :
                         t.user_id = rq[q].user_id /\ t.created_at >= clock}
       IN rq' = [rq EXCEPT ![q] =
                   IF rq[q].failing = "recentTokenQuery"
                   THEN Answer(@, 1, ErrorAnswer)
                   ELSE IF recent # {} THEN Answer(@, 0, GenericAnswer)
                   ELSE [@ EXCEPT
                           !.token = IF q = 1 THEN "Ta"
                                     ELSE IF q = 2 THEN "Tb" ELSE "Tc",
                           !.expiresAt = clock + 1,
                           !.pc = "insert"]]
    /\ UNCHANGED <<db, du, cu, rp>>
    /\ UNCHANGED notAccountVars

\* INSERT INTO password_reset_tokens resolves; the email is handed to the
\* provider
RequestResetInsert(q) ==
    /\ rq[q].pc = "insert"
    /\ IF rq[q].failing = "insert"
       THEN /\ rq' = [rq EXCEPT ![q] = Answer(@, 1, ErrorAnswer)]
            /\ UNCHANGED db
       ELSE /\ db' = [db EXCEPT !.password_reset_tokens = @ \cup
                        {[token |-> rq[q].token, user_id |-> rq[q].user_id,
                          expires_at |-> rq[q].expiresAt, used |-> FALSE,
                          created_at |-> clock]}]
            /\ rq' = [rq EXCEPT ![q] = [@ EXCEPT !.pc = "send"]]
    /\ UNCHANGED <<du, cu, rp>>
    /\ UNCHANGED notAccountVars

\* mailerSend.email.send resolves or throws
RequestResetSend(q) ==
    /\ rq[q].pc = "send"
    /\ rq' = [rq EXCEPT ![q] =
                IF rq[q].failing = "send" THEN Answer(@, 1, ErrorAnswer)
                ELSE Answer([@ EXCEPT !.sent = TRUE], 0, GenericAnswer)]
    /\ UNCHANGED <<db, du, cu, rp>>
    /\ UNCHANGED notAccountVars

\* the call arrives: validation, then the token query is issued; the hash
\* of the password the call asks for is a value no other call writes
ResetStart(p, token, longEnough) ==
    /\ rp[p].pc = "idle"
    /\ \A e \in 1..MaxResetCalls : e < p => rp[e].pc # "idle"
    /\ LET started == [rp[p] EXCEPT
                         !.token = token,
                         !.succeededAtStart =
                             {e \in 1..MaxResetCalls : rp[e].pc = "done"
                                                 /\ rp[e].error = 0}]
       IN rp' = [rp EXCEPT ![p] =
                IF token = ""
                THEN Answer(started, 1, "Token and new password are required")
                ELSE IF ~longEnough
                THEN Answer(started, 1,
                            "Password must be at least 6 characters")
                ELSE [started EXCEPT !.newPassword = p,
                                     !.pc = "tokenQuery"]]
    /\ UNCHANGED <<db, du, cu, rq>>
    /\ UNCHANGED notAccountVars

\* SELECT user_id, expires_at, used ... WHERE token = $1 resolves: unknown,
\* used and expired tokens are refused; otherwise bcrypt.hash is awaited
ResetTokenQuery(p, fault) ==
    /\ rp[p].pc = "tokenQuery"
    /\ LET rows == {t \in db.password_reset_tokens : t.token = rp[p].token}
           tokenData == CHOOSE t \in rows : TRUE
       IN rp' = [rp EXCEPT ![p] =
                   IF fault
                   THEN Answer([@ EXCEPT !.storeFault = TRUE], 1, ErrorAnswer)
                   ELSE IF rows = {}
                   THEN Answer(@, 1, "Invalid or expired reset link")
                   ELSE IF tokenData.used
                   THEN Answer(@, 1, "This reset link has already been used")
                   ELSE IF clock > tokenData.expires_at
                   THEN Answer(@, 1, "This reset link has expired")
                   ELSE [@ EXCEPT !.user_id = tokenData.user_id,
                                  !.expires_at = tokenData.expires_at,
                                  !.checkedAt = clock,
                                  !.pc = "hash"]]
    /\ UNCHANGED <<db, du, cu, rq>>
    /\ UNCHANGED notAccountVars

\* bcrypt.hash resolves; the UPDATE of the password is issued
ResetHash(p) ==
    /\ rp[p].pc = "hash"
    /\ rp' = [rp EXCEPT ![p] = [@ EXCEPT !.pc = "updateUser"]]
    /\ UNCHANGED <<db, du, cu, rq>>
    /\ UNCHANGED notAccountVars

\* UPDATE public."user" SET password resolves; the UPDATE of the token is
\* issued
ResetUpdateUser(p, fault) ==
    /\ rp[p].pc = "updateUser"
    /\ IF fault
       THEN /\ rp' = [rp EXCEPT ![p] =
                        Answer([@ EXCEPT !.storeFault = TRUE], 1, ErrorAnswer)]
            /\ UNCHANGED db
       ELSE /\ db' = [db EXCEPT !.user =
                        {IF u.user_id = rp[p].user_id
                         THEN [u EXCEPT !.password = rp[p].newPassword]
                         ELSE u : u \in @}]
            /\ rp' = [rp EXCEPT ![p] =
                        [@ EXCEPT !.changed =
                                     \E u \in db.user :
                                        u.user_id = rp[p].user_id,
                                  !.pc = "updateToken"]]
    /\ UNCHANGED <<du, cu, rq>>
    /\ UNCHANGED notAccountVars

\* UPDATE password_reset_tokens SET used = true resolves; the handler
\* answers success
ResetUpdateToken(p, fault) ==
    /\ rp[p].pc = "updateToken"
    /\ IF fault
       THEN /\ rp' = [rp EXCEPT ![p] =
                        Answer([@ EXCEPT !.storeFault = TRUE], 1, ErrorAnswer)]
            /\ UNCHANGED db
       ELSE /\ db' = [db EXCEPT !.password_reset_tokens =
                        {IF t.token = rp[p].token
                         THEN [t EXCEPT !.used = TRUE] ELSE t : t \in @}]
            /\ rp' = [rp EXCEPT ![p] =
                        Answer(@, 0, "Password reset successful")]
    /\ UNCHANGED <<du, cu, rq>>
    /\ UNCHANGED notAccountVars

----------------------------------------------------------------------------
(* Specifications *)

InitPray ==
    /\ user_request = {}
    /\ user_request_seq = 1
    /\ fcm_token \in {NULL, "ExponentPushToken[T1]"}
    /\ owner_email \in {NULL, "a@example.com"}
    /\ owner_settings \in
          {NoSettings} \cup
          [exists : {TRUE}, prayer_emails : {"true", "false"},
           push_notifications : {"true", "false", NULL}]
    /\ pf = [c \in PrayCalls |-> IdleCall]

InitCreate ==
    /\ clock = 0
    /\ marker = [k \in Keys |-> NoFile]
    /\ unlink_pending = {}
    /\ new_request = {}
    /\ request_seq = 1
    /\ prayers = {}
    /\ admin_mail = [c \in CreateCalls |-> "none"]
    /\ cr = [c \in CreateCalls |-> IdleCreate]

\* the store as the /createRequestAndPrayer calls find it: no prayer yet,
\* and an owner of "R" without settings, email or token
InitStore ==
    /\ user_request = {}
    /\ user_request_seq = 1
    /\ fcm_token = NULL
    /\ owner_email = NULL
    /\ owner_settings = NoSettings
    /\ pf = [c \in PrayCalls |-> IdleCall]

\* no call of the other endpoints has arrived
InitIdle ==
    /\ rt = [t \in RegisterCalls |-> IdleRegister]
    /\ fd = [f \in FeedCalls |-> IdleFeed]
    /\ bc = IdleBroadcast
    /\ ex = [s \in PushSends |-> IdleSend]
    /\ db = SeedDb
    /\ du = [d \in 1..MaxDeleteCalls |->
                [pc |-> "idle", userId |-> 0, error |-> 0,
                 response |-> "none", deleted |-> NoRows,
                 deletedAtFault |-> NoRows, storeFault |-> FALSE]]
    /\ cu = [c \in 1..MaxCreateUserCalls |->
                [pc |-> "idle", email |-> "", error |-> 0,
                 response |-> "none", nextUserId |-> 0, userRow |-> {},
                 settingsRow |-> {}, storeFault |-> FALSE]]
    /\ rp = [p \in 1..MaxResetCalls |->
                [pc |-> "idle", token |-> "", newPassword |-> 0,
                 error |-> 0, response |-> "none", user_id |-> 0,
                 checkedAt |-> 0, expires_at |-> 0, changed |-> FALSE,
                 succeededAtStart |-> {}, storeFault |-> FALSE]]
    /\ rq = [q \in 1..MaxResetRequests |->
                [pc |-> "idle", email |-> "", failing |-> "none",
                 error |-> 0, response |-> "none", user_id |-> 0,
                 token |-> "", expiresAt |-> 0, sent |-> FALSE]]

\* /prayFor calls: any settings, email and token of the request owner
InitPrayFor == InitPray /\ InitCreate /\ InitIdle

\* /createRequestAndPrayer calls
InitCreateRequest == InitStore /\ InitCreate /\ InitIdle

\* an owner with a token on file who has not disabled push and gets no email
InitRegisterToken ==
    /\ user_request = {}
    /\ user_request_seq = 1
    /\ fcm_token = "fcm:T1"
    /\ owner_email = "a@example.com"
    /\ owner_settings \in
          [exists : {TRUE}, prayer_emails : {"false"},
           push_notifications : {"true", NULL}]
    /\ pf = [c \in PrayCalls |-> IdleCall]
    /\ InitCreate
    /\ InitIdle

\* an owner who gets no notification: the calls end with their response
InitFeed ==
    /\ user_request = {}
    /\ user_request_seq = 1
    /\ fcm_token = NULL
    /\ owner_email = "a@example.com"
    /\ owner_settings =
          [exists |-> TRUE, prayer_emails |-> "false",
           push_notifications |-> "false"]
    /\ pf = [c \in PrayCalls |-> IdleCall]
    /\ InitCreate
    /\ InitIdle

\* an owner who gets both notifications
InitNotify ==
    /\ user_request = {}
    /\ user_request_seq = 1
    /\ fcm_token = "fcm:T1"
    /\ owner_email = "a@example.com"
    /\ owner_settings =
          [exists |-> TRUE, prayer_emails |-> "true",
           push_notifications |-> "true"]
    /\ pf = [c \in PrayCalls |-> IdleCall]
    /\ InitCreate
    /\ InitIdle

\* the other endpoints, against a store no /prayFor call touches
InitOther == InitStore /\ InitCreate /\ InitIdle

\* the users "B" and "C" are interchangeable: the first call names "B"
UserInputs(c) == IF c = 1 THEN UserIdInputs \ {"C"} ELSE UserIdInputs

NextPray ==
    \E c \in PrayCalls :
        \/ \E rid \in RequestIdInputs, uid \in UserInputs(c) :
              PrayForStart(c, rid, uid)
        \/ \E fault \in BOOLEAN : PrayForInsert(c, fault)
        \/ \E fault \in BOOLEAN : PrayForEnrich(c, fault)
        \/ \E err \in {Error0, Error1} : PrayForEmailDone(c, err)
        \/ \E outcome \in PushOutcomeKinds : PrayForPushDone(c, outcome)
        \/ \E fault \in BOOLEAN : PrayForErase(c, fault)

\* /prayFor calls for the existing request, with every outcome of the
\* providers and of the store
NextNotify ==
    \E c \in PrayCalls :
        \/ \E uid \in {"B", "C"} : PrayForStart(c, "R", uid)
        \/ \E fault \in BOOLEAN : PrayForInsert(c, fault)
        \/ \E fault \in BOOLEAN : PrayForEnrich(c, fault)
        \/ \E err \in {Error0, Error1} : PrayForEmailDone(c, err)
        \/ \E outcome \in PushOutcomes : PrayForPushDone(c, outcome)
        \/ \E fault \in BOOLEAN : PrayForErase(c, fault)

\* the keys are interchangeable: the first call sends "k1"
KeyInputs(c) == IF c = 1 THEN {"k1"} ELSE Keys

\* calls with a JSON body (no uploaded file)
NextCreate ==
    \/ \E c \in CreateCalls :
        \/ \E key \in KeyInputs(c), paramsOk \in BOOLEAN,
              uid \in (IF c = 1 THEN {"A", "Z"} ELSE {"A"}),
              writeFails \in BOOLEAN :
              CreateStart(c, key, paramsOk, uid, FALSE, writeFails)
        \/ \E fault \in BOOLEAN : CreateInsertRequest(c, fault, FALSE)
        \/ \E fault \in BOOLEAN : CreateUserQuery(c, fault)
        \/ \E outcome \in {"choices", "empty", "throws"} : CreateChat(c, outcome)
        \/ \E fault \in BOOLEAN : CreateInsertPrayer(c, fault)
        \/ \E fault \in BOOLEAN : CreateUpdateRequest(c, fault)
        \/ \E err \in {"sent", "failed"} : AdminMailDone(c, err)
    \/ \E u \in unlink_pending, err \in BOOLEAN : FsUnlink(u, err)
    \/ Tick

\* /prayFor and /registerFCMToken calls, the store answering every
\* statement but the token-erasure UPDATE, which may fail
\* /createRequestAndPrayer calls that carry an uploaded image (req.file)
NextImage ==
    \/ \E c \in CreateCalls :
        \/ \E key \in KeyInputs(c) :
              CreateStart(c, key, TRUE, "A", TRUE, FALSE)
        \/ \E fault \in BOOLEAN, imageWriteFails \in BOOLEAN :
              CreateInsertRequest(c, fault, imageWriteFails)
        \/ \E fault \in BOOLEAN : CreateUpdatePicture(c, fault)
        \/ CreateUserQuery(c, FALSE)
        \/ \E outcome \in {"choices", "empty", "throws"} : CreateChat(c, outcome)
        \/ \E fault \in BOOLEAN : CreateInsertPrayer(c, fault)
        \/ \E fault \in BOOLEAN : CreateUpdateRequest(c, fault)
        \/ AdminMailDone(c, "sent")
    \/ \E u \in unlink_pending : FsUnlink(u, FALSE)

NextDelete ==
    \E d \in 1..MaxDeleteCalls :
        \/ \E uid \in 0..4 : DeleteStart(d, uid)
        \/ \E fault \in BOOLEAN : DeleteUserCheck(d, fault)
        \/ \E i \in DOMAIN DeleteStatements, fault \in BOOLEAN :
              DeleteStatement(d, i, fault)
        \/ \E fault \in BOOLEAN : DeleteCommit(d, fault)
        \/ DeleteRollback(d)

NextCreateUser ==
    \E c \in 1..MaxCreateUserCalls :
        \/ \E email \in {"", "u1@example.com", "new@example.com"} :
              CreateUserStart(c, email)
        \/ \E fault \in BOOLEAN : CreateUserEmailCheck(c, fault)
        \/ \E fault \in BOOLEAN : CreateUserAwait(c, fault)
        \/ \E fault \in BOOLEAN : CreateUserMaxId(c, fault)
        \/ \E fault \in BOOLEAN : CreateUserInsertUser(c, fault)
        \/ \E fault \in BOOLEAN : CreateUserInsertSettings(c, fault)
        \/ \E fault \in BOOLEAN : CreateUserCommit(c, fault)
        \/ CreateUserRollback(c)

NextResetPassword ==
    \/ \E p \in 1..MaxResetCalls :
        \/ \E token \in {"", "T1", "T9"}, longEnough \in BOOLEAN :
              ResetStart(p, token, longEnough)
        \/ \E fault \in BOOLEAN : ResetTokenQuery(p, fault)
        \/ ResetHash(p)
        \/ \E fault \in BOOLEAN : ResetUpdateUser(p, fault)
        \/ \E fault \in BOOLEAN : ResetUpdateToken(p, fault)
    \/ TokenTick

\* the first call names the address of an active account; the others any
\* address: of an active account (as stored, or in another letter case),
\* of an inactive account, of no account, or none.  failing is the
\* operation the environment makes fail in the run: a query, the INSERT or
\* the provider call.
NextRequestReset ==
    \/ \E q \in 1..MaxResetRequests :
        \/ \E email \in IF q = 1 THEN {"u1@example.com"}
                         ELSE {"", "u1@example.com", "Paul@prayoverus.com",
                               PrayOverUs, "new@example.com"},
              failing \in {"none", "userQuery", "recentTokenQuery",
                           "insert", "send"} :
              RequestResetStart(q, email, failing)
        \/ RequestResetUserQuery(q)
        \/ RequestResetRecentQuery(q)
        \/ RequestResetInsert(q)
        \/ RequestResetSend(q)
    \/ TokenTick

NextToken ==
    \/ \E c \in PrayCalls :
        \/ PrayForStart(c, "R", "B")
        \/ PrayForInsert(c, FALSE)
        \/ PrayForEnrich(c, FALSE)
        \/ \E outcome \in {"messaging/registration-token-not-registered",
                             "app/network-error"} :
              PrayForPushDone(c, outcome)
        \/ \E fault \in BOOLEAN : PrayForErase(c, fault)
    \/ \E t \in RegisterCalls :
        \/ RegisterStart(t, "A", "fcm:T2")
        \/ \E fault \in BOOLEAN : RegisterUpdate(t, fault)

\* /prayFor and /getRequestFeed calls
NextFeed ==
    \/ \E c \in PrayCalls :
        \/ \E uid \in {"B", "C"} : PrayForStart(c, "R", uid)
        \/ \E fault \in BOOLEAN : PrayForInsert(c, fault)
        \/ PrayForEnrich(c, FALSE)
    \/ \E f \in FeedCalls :
        \/ \E rid \in {Missing, "R"}, uid \in {Missing, "B"} :
              FeedStart(f, rid, uid)
        \/ \E fault \in BOOLEAN : FeedQuery(f, fault)

NextBroadcast ==
    \/ \E paramsOk \in BOOLEAN, includeAllUsers \in BOOLEAN :
          BroadcastStart(paramsOk, includeAllUsers)
    \/ \E rows \in RecipientRows, fault \in BOOLEAN : BroadcastQuery(rows, fault)
    \/ \E ok \in BOOLEAN : BroadcastSendDone(ok)
    \/ BroadcastDelayDone

NextExpo ==
    \E s \in PushSends :
        \/ \E token \in PushTokens : ExpoStart(s, token)
        \/ \E outcome \in TicketOutcomes : ExpoTicket(s, outcome)
        \/ ExpoWaitDone(s)
        \/ \E outcome \in ReceiptOutcomes : ExpoReceipt(s, outcome)

\* the store answers every statement a /prayFor call has issued
StoreAnswers(c) ==
    \E fault \in BOOLEAN :
        PrayForInsert(c, fault) \/ PrayForEnrich(c, fault) \/ PrayForErase(c, fault)

\* the /prayFor handler against the store
SpecPray == InitPrayFor /\ [][NextPray]_vars

\* the /createRequestAndPrayer handler against the store and the file system
SpecCreate == InitCreateRequest /\ [][NextCreate]_vars

\* /createRequestAndPrayer calls with an uploaded image
SpecImage == InitCreateRequest /\ [][NextImage]_vars

\* concurrent /deleteUser calls
SpecDelete == InitOther /\ [][NextDelete]_vars

\* concurrent /createUser calls
SpecCreateUser == InitOther /\ [][NextCreateUser]_vars

\* concurrent /resetPassword calls while time passes
SpecResetPassword == InitOther /\ [][NextResetPassword]_vars

\* /requestPasswordReset calls while time passes
SpecRequestReset == InitOther /\ [][NextRequestReset]_vars

\* /prayFor calls for a request whose owner gets both notifications
SpecNotify == InitNotify /\ [][NextNotify]_vars

\* /prayFor next to /registerFCMToken
SpecToken == InitRegisterToken /\ [][NextToken]_vars

\* /prayFor next to /getRequestFeed
SpecFeed == InitFeed /\ [][NextFeed]_vars

\* the /sendBroadcastEmail handler
SpecBroadcast == InitOther /\ [][NextBroadcast]_vars

\* the Expo sendPushNotification helper
SpecExpo == InitOther /\ [][NextExpo]_vars

\* the /prayFor handler with a store that answers: every statement issued
\* is answered in the end, and the handler then runs on.  Nothing is
\* assumed of the email and push providers, and nothing of the clients.
SpecPrayLive ==
    /\ InitNotify
    /\ [][NextNotify]_vars
    /\ \A c \in PrayCalls : WF_vars(StoreAnswers(c))

----------------------------------------------------------------------------
(* Properties of POST /prayFor *)

Recorded == "Prayer recorded successfully"
AlreadyPrayed == "You have already prayed for this request"

\* both calls name the same existing request and the same existing user
SamePair(c1, c2) ==
    /\ pf[c1].requestId = pf[c2].requestId
    /\ pf[c1].userId = pf[c2].userId
    /\ pf[c1].requestId \in request
    /\ pf[c1].userId \in user

BothAnswered(c1, c2) ==
    /\ pf[c1].pc = "done" /\ pf[c2].pc = "done"
    /\ ~pf[c1].storeFault /\ ~pf[c2].storeFault

\* C1: two /prayFor calls for the same (requestId, userId) of an existing
\* request that run concurrently, the store answering every statement, end
\* with one call answering "Prayer recorded successfully" and the other
\* "You have already prayed for this request"; never with two successes.
C1_ConcurrentPrayOnce ==
    \A c1, c2 \in PrayCalls :
        ( /\ c1 # c2
          /\ c1 \in pf[c2].inFlightAtStart
          /\ SamePair(c1, c2)
          /\ BothAnswered(c1, c2) )
        => /\ {pf[c1].response, pf[c2].response} = {Recorded, AlreadyPrayed}
           /\ ~(pf[c1].response = Recorded /\ pf[c2].response = Recorded)

\* C2: in every reachable state user_request holds at most one row per
\* (request_id, user_id) pair.
C2_OneRowPerPair ==
    \A rid \in RequestIdInputs, uid \in UserIdInputs :
        Cardinality(RowsOf(rid, uid)) <= 1

\* C3: of two /prayFor calls for the same pair, the second issued after the
\* first has answered, the first answers success, the second answers the
\* already-prayed conflict and inserts nothing, and one row of the pair exists.
C3_SequentialPrayOnce ==
    \A c1, c2 \in PrayCalls :
        ( /\ c1 # c2
          /\ c1 \in pf[c2].doneAtStart
          /\ SamePair(c1, c2)
          /\ BothAnswered(c1, c2) )
        => /\ pf[c1].response = Recorded
           /\ pf[c2].response = AlreadyPrayed
           /\ pf[c2].inserted = 0
           /\ Cardinality(RowsOf(pf[c1].requestId, pf[c1].userId)) = 1

\* C8: a /prayFor call whose requestId names no request inserts no row and
\* answers RequestNotFound, neither a success nor a generic internal error.
C8_RequestNotFound ==
    \A c \in PrayCalls :
        ( /\ pf[c].pc = "done"
          /\ pf[c].requestId \notin request
          /\ ~PrayForMissingParam(pf[c].requestId, pf[c].userId)
          /\ ~pf[c].storeFault )
        => /\ pf[c].inserted = 0
           /\ RowsOf(pf[c].requestId, pf[c].userId) = {}
           /\ pf[c].response = "Request not found"

\* C9: a /prayFor call attempts an email or a push only once its own row is
\* in user_request; a call whose INSERT failed attempts neither.
C9_NotifyOnlyAfterInsert ==
    \A c \in PrayCalls :
        (pf[c].emailAttempted \/ pf[c].pushAttempted)
        => /\ pf[c].inserted # 0
           /\ \E row \in user_request :
                 /\ row.id = pf[c].inserted
                 /\ row.request_id = pf[c].requestId
                 /\ row.user_id = pf[c].userId

\* a call has inserted its row and tried both channels
C9_Witness ==
    \E c \in PrayCalls :
        /\ pf[c].pc = "done"
        /\ pf[c].inserted # 0
        /\ pf[c].emailAttempted /\ pf[c].pushAttempted

\* C10: once a /prayFor call has inserted its row and read the owner, no
\* outcome of the email, of the push or of the token-erasure UPDATE makes it
\* answer anything but success, and the row stays.
C10_SuccessDespiteNotificationFailure ==
    \A c \in PrayCalls :
        pf[c].enriched
        => /\ \E row \in user_request : row.id = pf[c].inserted
           /\ pf[c].pc = "done"
              => pf[c].response = Recorded /\ pf[c].status = 200

\* a call whose email failed, whose push reported an invalid token and whose
\* token-erasure UPDATE failed has answered
C10_Witness ==
    \E c \in PrayCalls :
        /\ pf[c].pc = "done"
        /\ pf[c].emailResult = Error1
        /\ pf[c].pushResult = Error1
        /\ pf[c].storeFault
        /\ pf[c].enriched
        /\ fcm_token # NULL

\* the owner's token was reported invalid to the call, and the store
\* executed the call's erasure UPDATE
ReportedInvalid(c) ==
    /\ pf[c].pc = "done"
    /\ pf[c].pushOutcome \in InvalidTokenCodes
    /\ ~pf[c].storeFault

\* a /registerFCMToken call wrote the owner's token after the erasure of c1
RegisteredSince(c1) == Registered \ pf[c1].registeredAtErase # {}

\* ... and before c2 read the owner
RegisteredBetween(c1, c2) ==
    pf[c2].registeredAtEnrich \ pf[c1].registeredAtErase # {}

C24_ErasureSparesNewToken ==
    [][\A c \in PrayCalls :
          (/\ pf[c].pc = "erase"
           /\ pf'[c].pc = "done"
           /\ ~pf'[c].storeFault
           /\ Registered \ pf[c].registeredAtEnrich # {})
          => fcm_token' = fcm_token]_vars

\* the rows and columns of the store the /prayFor handler can write
Store == <<user_request, user_request_seq, fcm_token, owner_settings,
           owner_email>>

\* the step in which a notification attempt of c fails for a reason other
\* than an invalid token: the email fails, or the push fails or is not made
FailsTransiently(c) ==
    \/ /\ pf[c].pc = "email"
       /\ pf'[c].pc # "email"
       /\ pf'[c].emailResult = Error1
    \/ /\ pf[c].pc = "push"
       /\ pf'[c].pc # "push"
       /\ pf'[c].pushOutcome \notin InvalidTokenCodes \cup {"sent"}

\* C12: the step in which an email fails, or a push fails for a reason other
\* than an invalid token, leaves every row and column of the store as it
\* was and does not issue the token-erasure UPDATE; that UPDATE is only ever
\* issued after the provider reported the token invalid.
C12_TransientFailureLeavesStore ==
    /\ [][\A c \in PrayCalls :
            FailsTransiently(c) => (Store' = Store /\ pf'[c].pc # "erase")]_vars
    /\ [](\A c \in PrayCalls :
            pf[c].pc = "erase" => pf[c].pushOutcome \in InvalidTokenCodes)

\* a call whose email failed and whose push hit a transient error has
\* answered, and the token and the call's row are in the store
C12_Witness ==
    \E c \in PrayCalls :
        /\ pf[c].pc = "done"
        /\ pf[c].emailResult = Error1
        /\ pf[c].pushOutcome \in TransientCodes
        /\ ~pf[c].storeFault
        /\ fcm_token = "fcm:T1"
        /\ \E row \in user_request : row.id = pf[c].inserted

\* the owner query of the call returned a token
TokenOnFile(c) == pf[c].requestOwner.fcm_token \notin {NULL, Undefined}

\* C13: once a /prayFor call has read the owner, it has attempted the email
\* exactly if the owner's prayer_emails is set and an email is on file; and
\* once past the email, it has attempted the push exactly if the owner's
\* push_notifications is not false and the owner query returned a token.  An
\* owner without a settings row has nothing on file for the handler.  A
\* skipped channel has no result: no error is reported for it.
C13_SkippedExactlyWhenDisabledOrAbsent ==
    \A c \in PrayCalls :
        /\ pf[c].enriched
           => /\ pf[c].emailAttempted
                 <=> /\ owner_settings.exists
                     /\ owner_settings.prayer_emails = "true"
                     /\ owner_email # NULL
              /\ ~pf[c].emailAttempted => pf[c].emailResult = NULL
        /\ (pf[c].enriched /\ pf[c].pc \in {"push", "erase", "done"})
           => /\ pf[c].pushAttempted
                 <=> /\ owner_settings.exists
                     /\ owner_settings.push_notifications # "false"
                     /\ TokenOnFile(c)
              /\ ~pf[c].pushAttempted => pf[c].pushResult = NULL
        /\ ~pf[c].enriched => ~pf[c].emailAttempted /\ ~pf[c].pushAttempted

\* a call skipped the email, the flag being off with an email on file, and
\* attempted the push, the owner having no push preference
C13_Witness ==
    \E c \in PrayCalls :
        /\ pf[c].pc = "done"
        /\ pf[c].enriched
        /\ ~pf[c].emailAttempted
        /\ owner_email # NULL
        /\ pf[c].pushAttempted
        /\ owner_settings.push_notifications = NULL

\* C18: a /prayFor call that waits for the email or the push provider
\* answers in the end, whether or not the provider ever does.
C18_ProviderCallsBounded ==
    \A c \in PrayCalls :
        (pf[c].pc \in {"email", "push"}) ~> (pf[c].pc = "done")

\* C19: a /getRequestFeed call with a userId and no requestId, arriving after
\* a /prayFor call of that user has answered success, returns no row of the
\* request that was prayed for.
C19_PrayedRequestLeavesFeed ==
    \A f \in FeedCalls :
        (fd[f].pc = "done" /\ ~fd[f].storeFault /\ fd[f].requestId = Missing)
        => \A c \in fd[f].prayedAtStart :
              pf[c].userId = fd[f].userId => pf[c].requestId \notin fd[f].rows

\* the feed of a user who had prayed for "R" came back without it
C19_Witness ==
    \E f \in FeedCalls, c \in PrayCalls :
        /\ fd[f].pc = "done"
        /\ ~fd[f].storeFault
        /\ fd[f].requestId = Missing
        /\ c \in fd[f].prayedAtStart
        /\ pf[c].userId = fd[f].userId
        /\ pf[c].requestId = "R"
        /\ fd[f].rows = {}

\* C22: in a success response of /prayFor, emailSent is true exactly if the
\* email was attempted and mailerSendSingle reported error 0, and pushSent
\* exactly if the push was attempted and the provider delivered; a call
\* that answered anything else reports neither.
C22_SentFlags ==
    \A c \in PrayCalls :
        /\ (pf[c].pc = "done" /\ pf[c].response = Recorded)
           => /\ pf[c].emailSent
                 <=> (pf[c].emailAttempted /\ pf[c].emailResult = Error0)
              /\ pf[c].pushSent
                 <=> (pf[c].pushAttempted /\ pf[c].pushOutcome = "sent")
        /\ pf[c].response # Recorded => ~pf[c].emailSent /\ ~pf[c].pushSent

\* a call answered with emailSent true and, its push having failed,
\* pushSent false
C22_Witness ==
    \E c \in PrayCalls :
        /\ pf[c].pc = "done"
        /\ pf[c].response = Recorded
        /\ pf[c].emailSent
        /\ pf[c].pushAttempted
        /\ ~pf[c].pushSent

----------------------------------------------------------------------------
(* Properties of POST /createRequestAndPrayer *)

KeyExists == "File for key already exists"

RowsBy(calls) == {row \in new_request : row.by \in calls}

\* C4: of two concurrent calls with the same key, the one that arrived first
\* is the accepted one and the other is answered the key-already-exists
\* error and inserts nothing: at most one request row, and one when the
\* accepted call succeeds.
C4_ConcurrentSameKey ==
    \A c1, c2 \in CreateCalls :
        ( /\ c1 # c2
          /\ c1 \in cr[c2].inFlightAtStart
          /\ cr[c1].idempotencyKey = cr[c2].idempotencyKey )
        => /\ cr[c1].accepted
           /\ ~cr[c2].accepted
           /\ cr[c2].pc = "done"
           /\ cr[c2].response = KeyExists
           /\ RowsBy({c2}) = {}
           /\ Cardinality(RowsBy({c1, c2})) <= 1
           /\ cr[c1].response = "success"
              => Cardinality(RowsBy({c1, c2})) = 1

\* a call was rejected while the accepted call with its key was in flight,
\* and the accepted call went on to succeed
C4_Witness ==
    \E c1, c2 \in CreateCalls :
        /\ c1 # c2
        /\ c1 \in cr[c2].inFlightAtStart
        /\ cr[c1].idempotencyKey = cr[c2].idempotencyKey
        /\ cr[c1].response = "success"
        /\ cr[c2].response = KeyExists

\* C5: a second call with the key of an accepted call, arriving while that
\* call is unresolved or after it succeeded and within the key's lifetime,
\* is rejected and inserts no request row.
C5_RejectedWithinLifetime ==
    \A c1, c2 \in CreateCalls :
        ( /\ c1 # c2
          /\ cr[c1].accepted
          /\ c1 \in cr[c2].inFlightAtStart \cup cr[c2].succeededAtStart
          /\ cr[c1].idempotencyKey = cr[c2].idempotencyKey
          /\ cr[c2].startedAt - cr[c1].startedAt <= ExpiryWindow )
        => /\ cr[c2].response = KeyExists
           /\ RowsBy({c2}) = {}

\* C6: a call that created the marker and has answered has released it: the
\* file is gone, or rewritten by a later call, or its fs.unlink is under way.
C6_MarkerReleased ==
    \A c \in CreateCalls :
        (cr[c].pc = "done" /\ cr[c].accepted)
        => \/ marker[cr[c].idempotencyKey].by # c
           \/ [key |-> cr[c].idempotencyKey, by |-> c] \in unlink_pending

\* C7: a key whose guard entry is older than the expiry window counts as
\* absent: no call is rejected because of such an entry.
C7_ExpiredKeyReusable ==
    \A c \in CreateCalls :
        cr[c].response = KeyExists => cr[c].foundAge <= ExpiryWindow

\* C20: a call whose marker file could not be written has answered HTTP 500
\* "Could not create request file" at once: it was not accepted, left no
\* marker, inserted no request row and no prayer, and started no email.
C20_MarkerWriteFailureStops ==
    \A c \in CreateCalls :
        cr[c].writeFailed
        => /\ cr[c].pc = "done"
           /\ cr[c].status = 500
           /\ cr[c].response = "Could not create request file"
           /\ ~cr[c].accepted
           /\ marker[cr[c].idempotencyKey].by # c
           /\ RowsBy({c}) = {}
           /\ cr[c].requestId = 0
           /\ cr[c].prayerId = 0
           /\ admin_mail[c] = "none"

\* a call's marker write failed while another call went through
C20_Witness ==
    \E c, d \in CreateCalls :
        /\ cr[c].writeFailed
        /\ cr[c].pc = "done"
        /\ cr[d].response = "success"

\* C21: a call with a missing required field has written nothing: a /prayFor
\* call no row of user_request, a /createRequestAndPrayer call no request
\* row and no marker file.
C21_RejectedBeforeStore ==
    /\ \A c \in PrayCalls :
          pf[c].response = "Required params missing"
          => /\ pf[c].inserted = 0
             /\ pf[c].pc = "done"
    /\ \A c \in CreateCalls :
          cr[c].response = "Required param missing"
          => /\ RowsBy({c}) = {}
             /\ cr[c].pc = "done"
             /\ marker[cr[c].idempotencyKey].by # c

\* C25: a /createRequestAndPrayer call that has answered with anything but
\* success has left no request row of its own in the store.
C25_ErrorLeavesNoRow ==
    \A c \in CreateCalls :
        (cr[c].pc = "done" /\ cr[c].response # "success") => RowsBy({c}) = {}

\* C26: once a /createRequestAndPrayer call that carried an uploaded image
\* has answered, the picture of its request row is not the placeholder
\* 'PENDING_IMAGE_UPLOAD'.
C26_NoPendingPicture ==
    \A c \in CreateCalls :
        (cr[c].pc = "done" /\ cr[c].hasFile)
        => \A row \in RowsBy({c}) : row.picture # PENDING_IMAGE_UPLOAD

\* C23: the admin email of a call is started only once the call has
\* answered success with its request row linked to its stored prayer; the
\* answer is there while the email is still under way; and however the email
\* ends, the answer and the row stay as they are.
C23_AdminMailDetached ==
    \A c \in CreateCalls :
        admin_mail[c] # "none"
        => /\ cr[c].pc = "done"
           /\ cr[c].response = "success"
           /\ cr[c].status = 200
           /\ cr[c].prayerId \in prayers
           /\ \E row \in new_request :
                 /\ row.request_id = cr[c].requestId
                 /\ row.by = c
                 /\ row.fk_prayer_id = cr[c].prayerId

\* the admin email of a call that had answered success has failed
C23_Witness ==
    \E c \in CreateCalls :
        /\ admin_mail[c] = "failed"
        /\ cr[c].response = "success"
        /\ RowsBy({c}) # {}

----------------------------------------------------------------------------
(* Properties of POST /sendBroadcastEmail *)

IsSend(e) == e.kind = "send"

\* the sends issued so far
Sends == SelectSeq(bc.trace, IsSend)

\* C14: the sends are issued to the recipients in list order, one each; every
\* settled send is counted as a success or as a failure; and the call ends
\* only when every recipient has been sent to, with successCount + failCount
\* and totalRecipients equal to the number of recipients.
C14_EveryRecipientAttemptedOnce ==
    /\ Len(Sends) <= Len(bc.recipientsToSend)
    /\ \A k \in 1..Len(Sends) : Sends[k].to = bc.recipientsToSend[k]
    /\ bc.successCount + bc.failCount =
          IF bc.pc = "send" THEN Len(Sends) - 1 ELSE Len(Sends)
    /\ (bc.pc = "done" /\ bc.response = "complete")
       => /\ Len(Sends) = Len(bc.recipientsToSend)
          /\ bc.successCount + bc.failCount = Len(bc.recipientsToSend)
          /\ bc.totalRecipients = Len(bc.recipientsToSend)

\* a broadcast ended with sends that failed and sends that succeeded
C14_Witness ==
    /\ bc.pc = "done"
    /\ bc.response = "complete"
    /\ bc.failCount >= 1
    /\ bc.successCount >= 1
    /\ Len(bc.recipientsToSend) = MaxRecipients

\* C15: in the order of events, every send but the last is followed by one
\* delay of 600 ms and every delay by a send: no two sends are adjacent, no
\* two delays are adjacent, and a finished broadcast ends with a send.
C15_OneDelayBetweenSends ==
    /\ \A k \in 1..Len(bc.trace) :
          /\ bc.trace[k].kind = "send"
             <=> k % 2 = 1
          /\ bc.trace[k].kind = "delay" => bc.trace[k].ms = 600
    /\ (bc.pc = "done" /\ bc.response = "complete")
       => Len(bc.trace) =
             IF bc.recipientsToSend = <<>> THEN 0
             ELSE 2 * Len(bc.recipientsToSend) - 1

\* a broadcast in which every send failed has ended, two delays apart
C15_Witness ==
    /\ bc.pc = "done"
    /\ bc.response = "complete"
    /\ bc.failCount = Len(bc.recipientsToSend)
    /\ Len(bc.recipientsToSend) >= 3
    /\ Len(bc.trace) = 2 * Len(bc.recipientsToSend) - 1

\* C16: no email carries the address of its TO field in its CC list, and the
\* CC list is the tracking addresses other than the TO address.
C16_ToNeverInCc ==
    \A k \in 1..Len(bc.trace) :
        bc.trace[k].kind = "send"
        => /\ \A a \in bc.trace[k].cc : ~SameAddress(a, bc.trace[k].to)
           /\ bc.trace[k].cc =
                 {t \in TrackingAddresses : ~SameAddress(t, bc.trace[k].to)}

----------------------------------------------------------------------------
(* Properties of the Expo sendPushNotification *)

\* submit, wait, poll
TwoPhases == <<Step("submit", 0), Step("wait", 1000), Step("poll", 0)>>

IsPrefix(s, t) ==
    /\ Len(s) <= Len(t)
    /\ \A k \in 1..Len(s) : s[k] = t[k]

\* C17: the steps of an invocation are a prefix of submit, wait 1000 ms,
\* poll; after a ticket with an error (or no ticket) it has ended without a
\* wait or a poll, reporting a failure; and when the receipt is missing or
\* fetching it fails, it ends with success and shouldRemoveToken false.
C17_TwoPhaseDelivery ==
    \A s \in PushSends :
        /\ IsPrefix(ex[s].trace, TwoPhases)
        /\ ex[s].ticket \notin {"none", "ok"}
           => /\ ex[s].pc = "done"
              /\ ex[s].trace = <<Step("submit", 0)>>
              /\ ~ex[s].success
        /\ (ex[s].pc = "done" /\ ex[s].receipt \in {"missing", "throws"})
           => /\ ex[s].success
              /\ ~ex[s].shouldRemoveToken
              /\ ex[s].trace = TwoPhases
        /\ ex[s].success => ex[s].trace = TwoPhases

\* one invocation ended on a missing receipt, another on a failed fetch
C17_Witness ==
    \E s1, s2 \in PushSends :
        /\ ex[s1].pc = "done" /\ ex[s1].receipt = "missing"
        /\ ex[s2].pc = "done" /\ ex[s2].receipt = "throws"

----------------------------------------------------------------------------
(* Properties of the account handlers *)

\* the rows of the account tables that belong to user uid: the user row, its
\* settings, its requests, the prayer records it made and the prayer
\* records on its requests
AccountRows(dbv, uid) ==
    [user |-> {u \in dbv.user : u.user_id = uid},
     settings |-> {x \in dbv.settings : x.user_id = uid},
     request |-> {r \in dbv.request : r.user_id = uid},
     user_request |->
        {x \in dbv.user_request :
            \/ x.user_id = uid
            \/ \E r \in dbv.request :
                  r.user_id = uid /\ r.request_id = x.request_id}]

\* C27: /deleteUser is all-or-nothing.  The step in which a call answers
\* success leaves no user row, settings, request or prayer record of that
\* user (made by it or on its requests) in the store; every other step of a
\* call, and so every step of a call one of whose statements fails, leaves
\* the tables as they were, and a call that does not answer success answers
\* an error.
C27_DeleteAllOrNothing ==
    [][\A d \in 1..MaxDeleteCalls :
          du'[d] # du[d]
          => /\ IF du'[d].response = "User deleted successfully"
                THEN AccountRows(db', du'[d].userId) = NoRows
                ELSE db' = db
             /\ (/\ du'[d].pc = "done"
                 /\ du'[d].response # "User deleted successfully")
                => du'[d].error = 1]_vars

\* one call has answered an error after a statement failed in a transaction
\* that had already deleted prayer records and requests, and the user row,
\* settings and requests of its user are there; another call has answered
\* success for another user, whose rows are gone
C27_Witness ==
    \E d, e \in 1..MaxDeleteCalls :
        /\ du[d].pc = "done"
        /\ du[d].response = "Failed to delete user"
        /\ du[d].deletedAtFault.request # {}
        /\ du[d].deletedAtFault.user_request # {}
        /\ \A t \in {"user", "settings", "request"} :
              AccountRows(db, du[d].userId)[t]
                  = AccountRows(SeedDb, du[d].userId)[t]
        /\ du[e].response = "User deleted successfully"
        /\ du[e].userId # du[d].userId
        /\ AccountRows(db, du[e].userId) = NoRows

\* C28: no two user rows carry the same email, and of the /createUser
\* calls made with one address at most one answers success.
C28_EmailUnique ==
    /\ \A u1, u2 \in db.user : u1.email = u2.email => u1 = u2
    /\ \A c1, c2 \in 1..MaxCreateUserCalls :
          (/\ c1 # c2
           /\ cu[c1].email = cu[c2].email
           /\ cu[c1].response = "User created successfully")
          => cu[c2].response # "User created successfully"

\* C29: a reset token changes a password at most once.  Of the
\* /resetPassword calls made with one token at most one writes the
\* password; a call that arrives after a call with its token has succeeded
\* is answered an error and writes nothing; and a call writes the password
\* only with a token that had not expired when the handler looked at it.
C29_TokenChangesPasswordOnce ==
    /\ \A p1, p2 \in 1..MaxResetCalls :
          (p1 # p2 /\ rp[p1].token = rp[p2].token /\ rp[p1].changed)
          => ~rp[p2].changed
    /\ \A p1, p2 \in 1..MaxResetCalls :
          (/\ p1 \in rp[p2].succeededAtStart
           /\ rp[p1].token = rp[p2].token
           /\ rp[p2].pc = "done")
          => rp[p2].error = 1 /\ ~rp[p2].changed
    /\ \A p \in 1..MaxResetCalls :
          rp[p].changed => rp[p].checkedAt <= rp[p].expires_at

\* C30: the answer of /requestPasswordReset does not depend on the address:
\* two calls that name an address and meet the same failure of the
\* environment (none, or the same failing operation) get the same answer.
C30_AnswerIndependentOfAccount ==
    \A q1, q2 \in 1..MaxResetRequests :
        (/\ rq[q1].pc = "done" /\ rq[q2].pc = "done"
         /\ rq[q1].email # "" /\ rq[q2].email # ""
         /\ rq[q1].failing = rq[q2].failing)
        => /\ rq[q1].response = rq[q2].response
           /\ rq[q1].error = rq[q2].error

====
